---------------------------- MODULE Spec2Model ----------------------------
(***************************************************************************)
(* Model of the cost-aware model selector of the backend                   *)
(* (backend/src/services/ModelSelectionService.ts) and of its cost ledger  *)
(* (CostTrackingService in backend/src/services/AIAgentService.ts).        *)
(*                                                                         *)
(* Units.  The source computes with IEEE doubles; the model computes with  *)
(* integers in fixed units so that every comparison of the source is an    *)
(* exact integer comparison:                                               *)
(*   costPer1kTokens   thousandths of a dollar   (0.075 -> 75)             *)
(*   cost              millionths of a dollar    (cpk * tokens / 1000)     *)
(*   effectiveness     tenths                    (0.5 -> 5, cap 1.0 -> 10) *)
(*   Math.log          1e-7                      (ln 2 -> 6931472)         *)
(*   temperature       tenths                                              *)
(* Objects are held by reference: `objects` is the heap of descriptor      *)
(* objects, `arrays` the heap of arrays of references to them.             *)
(*                                                                         *)
(* The ledger keeps its events in a Firestore collection, `store`.  Costs  *)
(* of events are whole dollars; the numbers the ledger derives from them   *)
(* by division are exact fractions num / den, with den = 0 for the doubles *)
(* Infinity (num = 1), -Infinity (num = -1) and NaN (num = 0).  Time is    *)
(* counted in ticks of the clock, DayLength ticks to the calendar day.     *)
(***************************************************************************)
EXTENDS Integers, Sequences, FiniteSets, TLC

VARIABLES
    objects,          \* heap: object reference -> ModelConfig value
    arrays,           \* heap: array reference -> sequence of object refs
    criteria,         \* the caller's ModelSelectionCriteria
    estimatedTokens,  \* the caller's token estimate
    result,           \* the SelectedModel last returned by selectModel
    held,             \* the array last returned by getAvailableModels
    mutations,        \* number of writes the caller made through references
    store,            \* collection ai_model_usage: document id -> document
    inflight,         \* store requests issued and not yet settled
    now,              \* the clock: Date.now() and new Date()
    outcome,          \* how the ledger call that settled last ended
    recordedLog,      \* number of 'Recorded AI model usage' log lines
    calls,            \* number of ledger write calls started
    pipeline          \* where processWithGemini stands in its invocation

selectorVars == <<objects, arrays, criteria, estimatedTokens, result, held, mutations>>
ledgerVars == <<store, inflight, now, outcome, recordedLog, calls>>
vars == <<selectorVars, ledgerVars, pipeline>>

NoOutcome == [call |-> "none"]
\* no processWithGemini invocation yet
NoInvocation == [pc |-> "idle", recorded |-> 0, invocation |-> 0]

\* the ledger before its first call: an empty collection
InitLedgerVars ==
    /\ store = <<>>
    /\ inflight = {}
    /\ now = 0
    /\ outcome = NoOutcome
    /\ recordedLog = 0
    /\ calls = 0
    /\ pipeline = NoInvocation

---------------------------------------------------------------------------
(* Bounds of the model *)

\* the caller's inputs are the first MaxTokenIdx token estimates and the
\* first MaxContextIdx context lengths of the samples below
MaxTokenIdx == 6
MaxContextIdx == 7
\* number of writes the caller makes through the references it was handed
MaxMutations == 1

\* 0 makes every score Infinity; 100, 200, 500 and 2000 are the estimates
\* of the service's tests; at 1000 a $1 and a $3 model can tie exactly
TokenSamples == <<0, 100, 200, 500, 1000, 2000, 50000>>
\* 64000 is half of a 128000 window; 200000, 1048576 and 2097152 are the
\* windows of the catalog; 2097153 exceeds every window
ContextSamples == <<5, 64000, 200000, 1048576, 1500000, 2097152, 2097153,
                    4000000>>

TokenValues == {TokenSamples[i] : i \in 1..MaxTokenIdx}
ContextValues == {ContextSamples[i] : i \in 1..MaxContextIdx}

---------------------------------------------------------------------------
(* Types of the service *)

Complexities == {"simple", "moderate", "complex"}
Urgencies == {"low", "normal", "high"}
Channels == {"sms", "voice", "email", "chat"}
\* customerTier is optional: "undefined" is the omitted field
CustomerTiers == {"undefined", "standard", "premium", "enterprise"}

\* requiresReasoning / requiresCreativity are never read by the service
ModelSelectionCriteria ==
    [complexity : Complexities, urgency : Urgencies,
     contextLength : ContextValues, customerTier : CustomerTiers,
     channel : Channels]

ModelConfig(n, p, id, c, w, s, mt, t) ==
    [name |-> n, provider |-> p, modelId |-> id, costPer1kTokens |-> c,
     contextWindow |-> w, strengths |-> s, maxTokens |-> mt, temperature |-> t]

\* the literal of the catalog, in source order
DefaultModels == <<
    ModelConfig("Gemini 1.5 Flash", "vertex", "gemini-1.5-flash", 75, 1048576,
                <<"fast", "efficient", "good_for_simple">>, 8192, 7),
    ModelConfig("Claude 3.5 Haiku", "vertex", "claude-3-5-haiku", 250, 200000,
                <<"fast", "efficient", "good_for_simple", "quick_responses">>, 8192, 7),
    ModelConfig("Gemini 2.5 Flash", "vertex", "gemini-2.5-flash", 150, 1048576,
                <<"balanced", "good_for_moderate", "multimodal">>, 8192, 7),
    ModelConfig("Claude 4.5 Sonnet", "vertex", "claude-4-5-sonnet", 3000, 200000,
                <<"balanced", "good_for_moderate", "creative", "coding", "latest">>, 8192, 7),
    ModelConfig("Claude 3.5 Sonnet", "vertex", "claude-3-5-sonnet", 3000, 200000,
                <<"balanced", "good_for_moderate", "creative", "coding">>, 8192, 7),
    ModelConfig("Claude 3 Haiku", "vertex", "claude-3-haiku", 250, 200000,
                <<"fast", "efficient", "good_for_simple">>, 4096, 7),
    ModelConfig("Claude 3 Sonnet", "vertex", "claude-3-sonnet", 3000, 200000,
                <<"balanced", "good_for_moderate", "creative">>, 4096, 7),
    ModelConfig("Claude Instant 1.2", "vertex", "claude-instant-1.2", 800, 100000,
                <<"fast", "efficient", "legacy_support">>, 4096, 7),
    ModelConfig("Claude Opus 4.1", "vertex", "claude-opus-4.1", 15000, 200000,
                <<"complex_reasoning", "creative", "nuanced_understanding",
                  "multilingual", "latest_premium">>, 4096, 7),
    ModelConfig("Gemini 1.5 Pro", "vertex", "gemini-1.5-pro", 1250, 2097152,
                <<"complex_reasoning", "large_context", "high_accuracy">>, 32768, 3),
    ModelConfig("Claude 3 Opus", "vertex", "claude-3-opus", 15000, 200000,
                <<"complex_reasoning", "creative", "nuanced_understanding",
                  "multilingual">>, 4096, 7),
    ModelConfig("GPT-4o", "openai", "gpt-4o", 5000, 128000,
                <<"creative", "nuanced_understanding", "good_for_creative">>, 16384, 7),
    ModelConfig("GPT-4o-mini", "openai", "gpt-4o-mini", 150, 128000,
                <<"fast", "efficient", "good_for_simple">>, 16384, 7),
    ModelConfig("Grok-2", "vertex", "grok-2", 2000, 128000,
                <<"creative", "helpful", "maximal_truth", "real_time">>, 4096, 7),
    ModelConfig("Grok-1.5", "vertex", "grok-1.5", 1000, 128000,
                <<"balanced", "helpful", "real_time">>, 4096, 7),
    ModelConfig("Grok-1", "vertex", "grok-1", 500, 8192,
                <<"fast", "efficient", "helpful">>, 2048, 7) >>

\* the object literal findOptimalModel builds when this.models is empty
FallbackLiteral ==
    ModelConfig("Gemini 1.5 Flash", "vertex", "gemini-1.5-flash", 75, 1048576,
                <<"fast", "efficient", "good_for_simple">>, 8192, 7)

\* references: 1..16 are the catalog's objects, LiteralRef the literal above
LiteralRef == 0
\* array references: the private field this.models, and the caller's copy
ThisModels == "this.models"
ReturnedArray == "returned"
NoRef == "none"
NoResult == [config |-> NoRef]

---------------------------------------------------------------------------
(* Arithmetic helpers *)

\* <<q, r>> with a * b = q * c + r and 0 <= r < c, for a, b >= 0 and
\* 0 < c, computed digit by digit of b so that no intermediate value
\* leaves the 32-bit range (10 * c + 9 * a must stay below 2^31)
RECURSIVE MulDivQR(_, _, _)
MulDivQR(a, b, c) ==
    IF b = 0 THEN <<0, 0>>
    ELSE LET h == MulDivQR(a, b \div 10, c)
             t == h[2] * 10 + a * (b % 10)
         IN  <<h[1] * 10 + t \div c, t % c>>

MulDiv(a, b, c) == MulDivQR(a, b, c)[1]

Micro == 1000000
Fixed7 == 10000000
Ln2 == 6931472

\* largest k with unit * 2^k <= y
RECURSIVE Log2Floor(_, _)
Log2Floor(y, unit) == IF y - unit < unit THEN 0 ELSE 1 + Log2Floor(y, 2 * unit)

RECURSIVE Pow2(_)
Pow2(k) == IF k = 0 THEN 1 ELSE 2 * Pow2(k - 1)

\* Math.log(cost + 1) in units of 1e-7, for a cost in millionths:
\* 1 + cost = m * 2^k with 1 <= m < 2, and
\* ln(1 + cost) = k ln 2 + 2 atanh(z), z = (m - 1) / (m + 1) < 1/3,
\* atanh(z) = z (1 + z^2/3 + z^4/5 + z^6/7 + z^8/9 + z^10/11)
Ln1p(cost) ==
    LET y == Micro + cost
        k == Log2Floor(y, Micro)
        p == Pow2(k)
        m == (y \div p) * 10 + ((y % p) * 10) \div p
        z == MulDiv(m - Fixed7, Fixed7, m + Fixed7)
        w == MulDiv(z, z, Fixed7)
        h11 == Fixed7 \div 11
        h9 == Fixed7 \div 9 + MulDiv(w, h11, Fixed7)
        h7 == Fixed7 \div 7 + MulDiv(w, h9, Fixed7)
        h5 == Fixed7 \div 5 + MulDiv(w, h7, Fixed7)
        h3 == Fixed7 \div 3 + MulDiv(w, h5, Fixed7)
        h1 == Fixed7 + MulDiv(w, h3, Fixed7)
    IN  k * Ln2 + MulDiv(2 * z, h1, Fixed7)

---------------------------------------------------------------------------
(* ModelSelectionService *)

\* Array.prototype.includes
includes(arr, x) == \E i \in DOMAIN arr : arr[i] = x

\* Math.min
Min(a, b) == IF a < b THEN a ELSE b

\* the four filter callbacks of filterModelsByCriteria, in source order
matchesComplexity(model, c) ==
    CASE c.complexity = "simple" ->
            includes(model.strengths, "good_for_simple") \/ includes(model.strengths, "fast")
      [] c.complexity = "moderate" ->
            includes(model.strengths, "good_for_moderate") \/ includes(model.strengths, "balanced")
      [] c.complexity = "complex" ->
            includes(model.strengths, "complex_reasoning") \/ includes(model.strengths, "large_context")
      [] OTHER -> TRUE

fitsContextLength_Reversed(model, c) == model.contextWindow <= c.contextLength

fitsContextLength(model, c) == model.contextWindow >= c.contextLength

meetsCustomerTier_FloorUnlessStandard(model, c) ==
    IF c.customerTier = "enterprise" THEN model.costPer1kTokens >= 500
    ELSE IF c.customerTier # "standard" THEN model.costPer1kTokens >= 100
    ELSE TRUE

meetsCustomerTier(model, c) ==
    IF c.customerTier = "enterprise" THEN model.costPer1kTokens >= 500
    ELSE IF c.customerTier = "premium" THEN model.costPer1kTokens >= 100
    ELSE TRUE

suitsChannel_Ignored(model, c) == TRUE

suitsChannel(model, c) ==
    IF c.channel = "voice" /\ c.urgency = "high"
    THEN includes(model.strengths, "fast")
    ELSE TRUE

filterModelsByCriteria_NoTier(c) ==
    LET byComplexity(r) == matchesComplexity(objects[r], c)
        byContext(r) == fitsContextLength(objects[r], c)
        byChannel(r) == suitsChannel(objects[r], c)
    IN  SelectSeq(SelectSeq(SelectSeq(arrays[ThisModels],
            byComplexity), byContext), byChannel)

\* this.models.filter(..).filter(..).filter(..).filter(..): an array of
\* references to the catalog's objects, in catalog order
filterModelsByCriteria(c) ==
    LET byComplexity(r) == matchesComplexity(objects[r], c)
        byContext(r) == fitsContextLength(objects[r], c)
        byTier(r) == meetsCustomerTier(objects[r], c)
        byChannel(r) == suitsChannel(objects[r], c)
    IN  SelectSeq(SelectSeq(SelectSeq(SelectSeq(arrays[ThisModels],
            byComplexity), byContext), byTier), byChannel)

calculateCost_PerStartedThousand(model, tokens) ==
    model.costPer1kTokens * ((tokens + 999) \div 1000) * 1000

calculateCost_FlatRate(model, tokens) == 1000 * tokens

\* (costPer1kTokens * tokens) / 1000, in millionths of a dollar
calculateCost(model, tokens) == model.costPer1kTokens * tokens

calculateEffectivenessScore_AtLeastTwice(model, c) ==
    LET bonus(cond, n) == IF cond THEN n ELSE 0
        score ==
            5
            + bonus(c.complexity = "simple" /\ includes(model.strengths, "good_for_simple"), 3)
            + bonus(c.complexity = "moderate" /\ includes(model.strengths, "good_for_moderate"), 3)
            + bonus(c.complexity = "complex" /\ includes(model.strengths, "complex_reasoning"), 4)
            + bonus(c.urgency = "high" /\ includes(model.strengths, "fast"), 2)
            + bonus(c.urgency = "low" /\ model.costPer1kTokens < 500, 1)
            + bonus(model.contextWindow >= c.contextLength * 2, 1)
            + bonus(c.customerTier = "enterprise" /\ model.costPer1kTokens > 1000, 2)
            + bonus(c.customerTier = "standard" /\ model.costPer1kTokens < 200, 1)
    IN  Min(score, 10)

calculateEffectivenessScore(model, c) ==
    LET bonus(cond, n) == IF cond THEN n ELSE 0
        score ==
            5
            + bonus(c.complexity = "simple" /\ includes(model.strengths, "good_for_simple"), 3)
            + bonus(c.complexity = "moderate" /\ includes(model.strengths, "good_for_moderate"), 3)
            + bonus(c.complexity = "complex" /\ includes(model.strengths, "complex_reasoning"), 4)
            + bonus(c.urgency = "high" /\ includes(model.strengths, "fast"), 2)
            + bonus(c.urgency = "low" /\ model.costPer1kTokens < 500, 1)
            + bonus(model.contextWindow > c.contextLength * 2, 1)
            + bonus(c.customerTier = "enterprise" /\ model.costPer1kTokens > 1000, 2)
            + bonus(c.customerTier = "standard" /\ model.costPer1kTokens < 200, 1)
    IN  Min(score, 10)

\* effectiveness / Math.log(cost + 1), kept as the fraction num / den;
\* den = 0 is the double Infinity (num is at least 5, so never 0 / 0)
costEffectiveness(effectiveness, cost) == [num |-> effectiveness, den |-> Ln1p(cost)]

IsInfinity(score) == score.den = 0

\* the element findOptimalModel's map callback builds for one candidate
scoreCandidate(r, c, tokens) ==
    LET cost == calculateCost(objects[r], tokens)
        effectiveness == calculateEffectivenessScore(objects[r], c)
    IN  [model |-> r, cost |-> cost, effectiveness |-> effectiveness,
         score |-> costEffectiveness(effectiveness, cost)]

compareFn_Ascending(a, b) ==
    IF IsInfinity(a.score) /\ IsInfinity(b.score) THEN 0
    ELSE IF IsInfinity(a.score) THEN 1
    ELSE IF IsInfinity(b.score) THEN -1
    ELSE LET d == a.score.num * b.score.den - b.score.num * a.score.den
         IN  IF d > 0 THEN 1 ELSE IF d < 0 THEN -1 ELSE 0

\* the sort callback (a, b) => b.score - a.score, as the sign sort reads:
\* Infinity - Infinity is NaN, which sort treats as 0
compareFn(a, b) ==
    IF IsInfinity(a.score) /\ IsInfinity(b.score) THEN 0
    ELSE IF IsInfinity(b.score) THEN 1
    ELSE IF IsInfinity(a.score) THEN -1
    ELSE LET d == b.score.num * a.score.den - a.score.num * b.score.den
         IN  IF d > 0 THEN 1 ELSE IF d < 0 THEN -1 ELSE 0

insertSorted_Unstable(sorted, x) ==
    LET after == {i \in DOMAIN sorted : compareFn(sorted[i], x) >= 0}
        pos == IF after = {} THEN Len(sorted) + 1
               ELSE CHOOSE i \in after : \A j \in after : i <= j
    IN  SubSeq(sorted, 1, pos - 1) \o <<x>> \o SubSeq(sorted, pos, Len(sorted))

\* Array.prototype.sort is stable: x goes before the first element that
\* the comparator places after it
insertSorted(sorted, x) ==
    LET after == {i \in DOMAIN sorted : compareFn(sorted[i], x) > 0}
        pos == IF after = {} THEN Len(sorted) + 1
               ELSE CHOOSE i \in after : \A j \in after : i <= j
    IN  SubSeq(sorted, 1, pos - 1) \o <<x>> \o SubSeq(sorted, pos, Len(sorted))

RECURSIVE sortFrom(_, _, _)
sortFrom(arr, i, sorted) ==
    IF i > Len(arr) THEN sorted
    ELSE sortFrom(arr, i + 1, insertSorted(sorted, arr[i]))

sort(arr) == sortFrom(arr, 1, <<>>)

RECURSIVE reduceCheapest_Greater(_, _, _)
reduceCheapest_Greater(arr, i, cheapest) ==
    IF i > Len(arr) THEN cheapest
    ELSE reduceCheapest_Greater(arr, i + 1,
            IF objects[arr[i]].costPer1kTokens > objects[cheapest].costPer1kTokens
            THEN arr[i] ELSE cheapest)

\* this.models.reduce((cheapest, current) =>
\*     current.costPer1kTokens < cheapest.costPer1kTokens ? current : cheapest)
\* without an initial value: starts from element 1 and visits from element 2
RECURSIVE reduceCheapest(_, _, _)
reduceCheapest(arr, i, cheapest) ==
    IF i > Len(arr) THEN cheapest
    ELSE reduceCheapest(arr, i + 1,
            IF objects[arr[i]].costPer1kTokens < objects[cheapest].costPer1kTokens
            THEN arr[i] ELSE cheapest)

cheapestFallback_InvertedTest(models) ==
    IF Len(models) > 0 THEN LiteralRef ELSE reduceCheapest(models, 2, models[1])

\* the fallback of an empty candidate list: the cheapest model of the
\* catalog, or a fresh literal when the catalog is empty
cheapestFallback(models) ==
    IF Len(models) > 0 THEN reduceCheapest(models, 2, models[1]) ELSE LiteralRef

\* the "ultimate fallback" taken when the sorted list has no first element
firstAvailable(models) ==
    IF Len(models) > 0 THEN models[1] ELSE LiteralRef

\* Number.prototype.toFixed of the three numbers of the reasoning text:
\* score to 2 places (hundredths; -1 is the text "Infinity"),
\* cost to 4 places (1e-4 dollars), effectiveness to 2 places (hundredths)
scoreToFixed2(score) ==
    IF IsInfinity(score) THEN -1
    ELSE LET qr == MulDivQR(score.num, 100000000, score.den)
         IN  qr[1] + (IF 2 * qr[2] >= score.den THEN 1 ELSE 0)

costToFixed4(cost) == (cost + 50) \div 100

effectivenessToFixed2(effectiveness) == effectiveness * 10

FallbackReasoning == <<"No models matched criteria, using cheapest fallback">>
FailedReasoning == <<"Selection failed, using first available model">>
ScoredReasoning(selected) ==
    <<"Selected based on cost-effectiveness score", scoreToFixed2(selected.score),
      costToFixed4(selected.cost), effectivenessToFixed2(selected.effectiveness)>>

findOptimalModel(candidates, c, tokens) ==
    LET models == arrays[ThisModels]
    IN  IF Len(candidates) = 0
        THEN [config |-> cheapestFallback(models), reasoning |-> FallbackReasoning]
        ELSE LET scoredCandidates ==
                     sort([i \in DOMAIN candidates |->
                              scoreCandidate(candidates[i], c, tokens)])
             IN  IF Len(scoredCandidates) = 0
                 THEN [config |-> firstAvailable(models), reasoning |-> FailedReasoning]
                 ELSE [config |-> scoredCandidates[1].model,
                       reasoning |-> ScoredReasoning(scoredCandidates[1])]

selectModel(c, tokens) ==
    LET candidates == filterModelsByCriteria(c)
        selectedModel == findOptimalModel(candidates, c, tokens)
        estimatedCost == calculateCost(objects[selectedModel.config], tokens)
    IN  [config |-> selectedModel.config,
         estimatedCost |-> estimatedCost,
         reasoning |-> selectedModel.reasoning]

\* return [...this.models]: a new array holding the same references
getAvailableModels == [ref |-> ReturnedArray, elements |-> arrays[ThisModels]]

---------------------------------------------------------------------------
(* State machine: one service instance and one caller *)

\* the selector after construction
InitSelector ==
    /\ objects = [r \in {LiteralRef} \cup DOMAIN DefaultModels |->
                     IF r = LiteralRef THEN FallbackLiteral ELSE DefaultModels[r]]
    /\ arrays = [a \in {ThisModels} |-> [i \in DOMAIN DefaultModels |-> i]]
    /\ result = NoResult
    /\ held = NoRef
    /\ mutations = 0

InitService ==
    /\ InitSelector
    /\ InitLedgerVars

Init ==
    /\ InitService
    /\ criteria \in ModelSelectionCriteria
    /\ estimatedTokens \in TokenValues

SelectModel_SortsCatalog ==
    /\ result' = selectModel(criteria, estimatedTokens)
    /\ objects' = objects
    /\ arrays' = [arrays EXCEPT ![ThisModels] =
                     LET sorted == sort([i \in DOMAIN @ |->
                                           scoreCandidate(@[i], criteria, estimatedTokens)])
                     IN  [i \in DOMAIN sorted |-> sorted[i].model]]
    /\ UNCHANGED <<criteria, estimatedTokens, held, mutations>>
    /\ UNCHANGED <<ledgerVars, pipeline>>

\* result = service.selectModel(criteria, estimatedTokens)
SelectModel ==
    /\ result' = selectModel(criteria, estimatedTokens)
    /\ objects' = IF result'.config = LiteralRef
                  THEN [objects EXCEPT ![LiteralRef] = FallbackLiteral]
                  ELSE objects
    /\ UNCHANGED <<arrays, criteria, estimatedTokens, held, mutations>>
    /\ UNCHANGED <<ledgerVars, pipeline>>

\* held = service.getAvailableModels()
GetAvailableModels ==
    /\ LET returned == getAvailableModels
       IN  /\ arrays' = [a \in DOMAIN arrays \cup {returned.ref} |->
                            IF a = returned.ref THEN returned.elements ELSE arrays[a]]
           /\ held' = returned.ref
    /\ UNCHANGED <<objects, criteria, estimatedTokens, result, mutations>>
    /\ UNCHANGED <<ledgerVars, pipeline>>

Next == SelectModel \/ GetAvailableModels

Spec == Init /\ [][Next]_vars

---------------------------------------------------------------------------
(* A caller that writes through the references the service handed out *)

\* the caller probes the service with one criteria of each complexity
ProbeCriteria ==
    {c \in ModelSelectionCriteria :
        /\ c.urgency = "normal" /\ c.channel = "chat"
        /\ c.customerTier = "standard" /\ c.contextLength = ContextSamples[1]}
ProbeTokens == {TokenSamples[2], TokenSamples[5]}

\* values the caller writes into a descriptor
WrittenCosts == {15000}
WrittenStrengths == {<<>>}

InitCaller ==
    /\ InitService
    /\ criteria \in ProbeCriteria
    /\ estimatedTokens \in ProbeTokens

\* held.shift()
CallerShiftsArray ==
    /\ held # NoRef
    /\ mutations < MaxMutations
    /\ Len(arrays[held]) > 0
    /\ arrays' = [arrays EXCEPT ![held] = Tail(@)]
    /\ mutations' = mutations + 1
    /\ UNCHANGED <<objects, criteria, estimatedTokens, result, held>>
    /\ UNCHANGED <<ledgerVars, pipeline>>

\* held[i].costPer1kTokens = v
CallerSetsCost(i, v) ==
    /\ held # NoRef
    /\ mutations < MaxMutations
    /\ i \in DOMAIN arrays[held]
    /\ objects' = [objects EXCEPT ![arrays[held][i]].costPer1kTokens = v]
    /\ mutations' = mutations + 1
    /\ UNCHANGED <<arrays, criteria, estimatedTokens, result, held>>
    /\ UNCHANGED <<ledgerVars, pipeline>>

\* held[i].strengths = s
CallerSetsStrengths(i, s) ==
    /\ held # NoRef
    /\ mutations < MaxMutations
    /\ i \in DOMAIN arrays[held]
    /\ objects' = [objects EXCEPT ![arrays[held][i]].strengths = s]
    /\ mutations' = mutations + 1
    /\ UNCHANGED <<arrays, criteria, estimatedTokens, result, held>>
    /\ UNCHANGED <<ledgerVars, pipeline>>

\* result.config.costPer1kTokens = v
CallerSetsResultCost(v) ==
    /\ result # NoResult
    /\ mutations < MaxMutations
    /\ objects' = [objects EXCEPT ![result.config].costPer1kTokens = v]
    /\ mutations' = mutations + 1
    /\ UNCHANGED <<arrays, criteria, estimatedTokens, result, held>>
    /\ UNCHANGED <<ledgerVars, pipeline>>

NextCaller ==
    \/ SelectModel
    \/ GetAvailableModels
    \/ CallerShiftsArray
    \/ \E i \in DOMAIN DefaultModels : \E v \in WrittenCosts : CallerSetsCost(i, v)
    \/ \E i \in DOMAIN DefaultModels : \E t \in WrittenStrengths : CallerSetsStrengths(i, t)
    \/ \E v \in WrittenCosts : CallerSetsResultCost(v)

SpecCaller == InitCaller /\ [][NextCaller]_vars

---------------------------------------------------------------------------
(* Vocabulary of the properties *)

Done == result # NoResult

\* the objects of the catalog, and the values the catalog holds
CatalogRefs == {arrays[ThisModels][i] : i \in DOMAIN arrays[ThisModels]}
CatalogValue == [i \in DOMAIN arrays[ThisModels] |-> objects[arrays[ThisModels][i]]]

\* the descriptor selectModel returned
Chosen == objects[result.config]

Tags(model) == {model.strengths[i] : i \in DOMAIN model.strengths}

AcceptedTags(complexity) ==
    CASE complexity = "simple" -> {"good_for_simple", "fast"}
      [] complexity = "moderate" -> {"good_for_moderate", "balanced"}
      [] complexity = "complex" -> {"complex_reasoning", "large_context"}

TierFloor(tier) ==
    CASE tier = "enterprise" -> 500
      [] tier = "premium" -> 100
      [] OTHER -> 0

\* the four conditions of the candidate set, as the specification words them
PassesComplexity(model, c) == Tags(model) \cap AcceptedTags(c.complexity) # {}
PassesContext(model, c) == model.contextWindow >= c.contextLength
PassesTier(model, c) == model.costPer1kTokens >= TierFloor(c.customerTier)
PassesChannel(model, c) ==
    (c.channel = "voice" /\ c.urgency = "high") => "fast" \in Tags(model)

Eligible(c) ==
    {r \in CatalogRefs :
        /\ PassesComplexity(objects[r], c) /\ PassesContext(objects[r], c)
        /\ PassesTier(objects[r], c) /\ PassesChannel(objects[r], c)}

IsFallback == result.reasoning = FallbackReasoning
IsScored == result.reasoning[1] = "Selected based on cost-effectiveness score"

CheapestInCatalog(r) ==
    \A q \in CatalogRefs : objects[r].costPer1kTokens <= objects[q].costPer1kTokens

---------------------------------------------------------------------------
(* C1: for every well-formed criteria and every estimatedTokens >= 0,      *)
(* selectModel returns a result whose config is one of the catalog's       *)
(* models: it never returns without a model.                               *)
C1_ReturnsCatalogModel ==
    Done =>
        /\ result.config \in CatalogRefs
        /\ \E i \in DOMAIN DefaultModels : Chosen = DefaultModels[i]
        /\ DOMAIN result = {"config", "estimatedCost", "reasoning"}

\* a selection with a zero estimate (every score is Infinity) and the tier omitted
C1_Witness ==
    /\ Done /\ estimatedTokens = 0 /\ criteria.customerTier = "undefined"
    /\ IsScored /\ result.config \in CatalogRefs

---------------------------------------------------------------------------
(* C2: selectModel returns the fallback reasoning exactly when no catalog  *)
(* model passes all four filters; the model returned is then the one with  *)
(* the lowest costPer1kTokens of the whole catalog (Gemini 1.5 Flash),     *)
(* with estimatedCost computed from that model; a scored selection never   *)
(* carries the fallback reasoning.                                         *)
C2_FallbackExactlyWhenNoCandidate ==
    Done =>
        /\ IsFallback <=> Eligible(criteria) = {}
        /\ IsFallback =>
              /\ CheapestInCatalog(result.config)
              /\ Chosen.name = "Gemini 1.5 Flash"
              /\ result.estimatedCost = Chosen.costPer1kTokens * estimatedTokens
        /\ Eligible(criteria) # {} => IsScored /\ result.reasoning # FallbackReasoning

\* a fallback taken although models with a large enough window exist
C2_Witness ==
    /\ Done /\ IsFallback /\ Eligible(criteria) = {}
    /\ criteria.contextLength = 5 /\ estimatedTokens = 2000

---------------------------------------------------------------------------
(* C3: the candidate set is the intersection of the four filters, the same *)
(* in whatever order they are applied; when it is not empty the model      *)
(* returned belongs to it: it carries a tag accepted for the complexity,   *)
(* its window is at least contextLength, its price is at least 0.5 for     *)
(* enterprise and 0.1 for premium, and it is tagged fast for urgent voice. *)
Passes(k, r, c) ==
    CASE k = 1 -> matchesComplexity(objects[r], c)
      [] k = 2 -> fitsContextLength(objects[r], c)
      [] k = 3 -> meetsCustomerTier(objects[r], c)
      [] k = 4 -> suitsChannel(objects[r], c)

\* the catalog filtered by the four filters applied in the order given
FilteredInOrder(order, c) ==
    LET f1(r) == Passes(order[1], r, c)
        f2(r) == Passes(order[2], r, c)
        f3(r) == Passes(order[3], r, c)
        f4(r) == Passes(order[4], r, c)
    IN  SelectSeq(SelectSeq(SelectSeq(SelectSeq(arrays[ThisModels], f1), f2), f3), f4)

FilterOrders == {o \in [1..4 -> 1..4] : \A i, j \in 1..4 : o[i] = o[j] => i = j}

C3_CandidatesAreTheIntersection ==
    Done =>
        LET candidates == filterModelsByCriteria(criteria)
        IN  /\ {candidates[i] : i \in DOMAIN candidates} = Eligible(criteria)
            /\ \A o \in FilterOrders : FilteredInOrder(o, criteria) = candidates
            /\ Eligible(criteria) # {} =>
                  /\ result.config \in Eligible(criteria)
                  /\ Tags(Chosen) \cap AcceptedTags(criteria.complexity) # {}
                  /\ Chosen.contextWindow >= criteria.contextLength
                  /\ criteria.customerTier = "enterprise" => Chosen.costPer1kTokens >= 500
                  /\ criteria.customerTier = "premium" => Chosen.costPer1kTokens >= 100
                  /\ (criteria.channel = "voice" /\ criteria.urgency = "high")
                        => "fast" \in Tags(Chosen)

\* the premium moderate chat request of the service's tests, answered from
\* a candidate set that the tier floor and the window both narrow
C3_Witness ==
    /\ Done /\ IsScored
    /\ criteria.complexity = "moderate" /\ criteria.customerTier = "premium"
    /\ criteria.channel = "chat" /\ criteria.urgency = "normal"
    /\ estimatedTokens = 500
    /\ Cardinality(Eligible(criteria)) > 1
    /\ Cardinality(Eligible(criteria)) < Cardinality(CatalogRefs)

---------------------------------------------------------------------------
(* C4, as claimed: for any criteria with contextLength = W, if at least    *)
(* one catalog model has contextWindow >= W, the model returned has        *)
(* contextWindow >= W.                                                     *)
C4_WindowRespectedIfAnyModelFits ==
    (Done /\ \E r \in CatalogRefs : objects[r].contextWindow >= criteria.contextLength)
        => Chosen.contextWindow >= criteria.contextLength

(* C4, amended: if at least one catalog model with contextWindow >= W also *)
(* passes the complexity, customer-tier and channel/urgency filters, the   *)
(* model returned has contextWindow >= W; otherwise the fallback returns   *)
(* the cheapest model of the catalog, whose window of 1048576 tokens is    *)
(* below W for every W above it.                                           *)
C4_WindowRespectedIfAnyCandidateFits ==
    Done =>
        /\ Eligible(criteria) # {} => Chosen.contextWindow >= criteria.contextLength
        /\ Eligible(criteria) = {} =>
              /\ CheapestInCatalog(result.config)
              /\ Chosen.contextWindow = 1048576
              /\ (Chosen.contextWindow >= criteria.contextLength
                    <=> criteria.contextLength <= 1048576)

\* a request only the largest window could hold, answered by a candidate
C4_Witness ==
    /\ Done /\ IsScored
    /\ criteria.contextLength > 1048576
    /\ Chosen.contextWindow >= criteria.contextLength
    /\ \E r \in CatalogRefs : objects[r].contextWindow < criteria.contextLength

---------------------------------------------------------------------------
(* C5: for every criteria with customerTier = enterprise the model         *)
(* returned has costPer1kTokens >= 0.5, and for customerTier = premium it  *)
(* has costPer1kTokens >= 0.1, whatever the complexity, urgency, channel   *)
(* and contextLength.                                                      *)
C5_TierFloorAlwaysRespected ==
    Done =>
        /\ criteria.customerTier = "enterprise" => Chosen.costPer1kTokens >= 500
        /\ criteria.customerTier = "premium" => Chosen.costPer1kTokens >= 100

---------------------------------------------------------------------------
(* C6: for every criteria with channel = voice and urgency = high, the     *)
(* model returned by selectModel is tagged fast.                           *)
C6_UrgentVoiceGetsFastModel ==
    (Done /\ criteria.channel = "voice" /\ criteria.urgency = "high")
        => "fast" \in Tags(Chosen)

\* an urgent voice request of moderate complexity: no balanced model is
\* fast, so the answer comes from the fallback
C6_Witness ==
    /\ Done /\ criteria.channel = "voice" /\ criteria.urgency = "high"
    /\ criteria.complexity = "moderate" /\ IsFallback
    /\ "fast" \in Tags(Chosen)

---------------------------------------------------------------------------
(* C7: for complexity = simple, urgency = low, channel = sms, customerTier *)
(* = standard, any contextLength and any positive token estimate,          *)
(* selectModel returns the model with the lowest costPer1kTokens of the    *)
(* catalog (Gemini 1.5 Flash), tagged good_for_simple or fast; for 100     *)
(* estimated tokens its estimatedCost is below 0.01.                       *)
IsCheapSimpleRequest ==
    /\ criteria.complexity = "simple" /\ criteria.urgency = "low"
    /\ criteria.channel = "sms" /\ criteria.customerTier = "standard"
    /\ estimatedTokens > 0

C7_SimpleRequestGetsCheapestModel ==
    (Done /\ IsCheapSimpleRequest) =>
        /\ CheapestInCatalog(result.config)
        /\ Chosen.name = "Gemini 1.5 Flash"
        /\ Tags(Chosen) \cap {"good_for_simple", "fast"} # {}
        /\ estimatedTokens = 100 => result.estimatedCost < 10000

\* the request of the service's first test, won on score against five
\* other candidates
C7_Witness ==
    /\ Done /\ IsCheapSimpleRequest /\ IsScored
    /\ criteria.contextLength = 5 /\ estimatedTokens = 100
    /\ Cardinality(Eligible(criteria)) = 6
    /\ result.estimatedCost = 7500

---------------------------------------------------------------------------
(* C8: when the candidate set is not empty, selectModel returns the        *)
(* candidate whose score = effectiveness / ln(cost + 1) is highest, and    *)
(* among candidates sharing the highest score the first in catalog order   *)
(* (Claude 4.5 Sonnet ahead of Claude 3.5 Sonnet and Claude 3 Sonnet,      *)
(* Claude 3.5 Haiku ahead of Claude 3 Haiku).                              *)
ScoreOf(r) ==
    [num |-> calculateEffectivenessScore(objects[r], criteria),
     den |-> Ln1p(objects[r].costPer1kTokens * estimatedTokens)]

\* s < t for scores num / den, a zero den being Infinity
ScoreLess(s, t) ==
    IF s.den = 0 THEN FALSE
    ELSE IF t.den = 0 THEN TRUE
    ELSE s.num * t.den < t.num * s.den

PositionOf(r) == CHOOSE i \in DOMAIN arrays[ThisModels] : arrays[ThisModels][i] = r

C8_HighestScoreFirstInCatalogOrder ==
    (Done /\ Eligible(criteria) # {}) =>
        /\ result.config \in Eligible(criteria)
        /\ \A r \in Eligible(criteria) :
              /\ ~ScoreLess(ScoreOf(result.config), ScoreOf(r))
              /\ PositionOf(r) < PositionOf(result.config)
                    => ScoreLess(ScoreOf(r), ScoreOf(result.config))
        /\ Chosen.name \notin {"Claude 3.5 Sonnet", "Claude 3 Sonnet", "Claude 3 Haiku"}

\* Claude 4.5 Sonnet returned while other candidates have exactly its score:
\* the two older Sonnets, and Grok-1.5 at a third of the price
C8_Witness ==
    /\ Done /\ IsScored /\ Chosen.name = "Claude 4.5 Sonnet"
    /\ estimatedTokens > 0
    /\ \E r \in Eligible(criteria) :
          /\ objects[r].name = "Grok-1.5"
          /\ ~ScoreLess(ScoreOf(r), ScoreOf(result.config))
    /\ \E r \in Eligible(criteria) :
          /\ objects[r].name = "Claude 3 Sonnet"
          /\ ~ScoreLess(ScoreOf(r), ScoreOf(result.config))

---------------------------------------------------------------------------
(* C9: the estimatedCost returned by selectModel equals                    *)
(* chosenModel.costPer1kTokens x estimatedTokens / 1000 for the model      *)
(* actually returned (scored or fallback); for a fixed model the cost is   *)
(* linear and monotonically non-decreasing in the token count, and >= 0    *)
(* for every token count >= 0.                                             *)
C9_EstimatedCostOfChosenModel ==
    Done =>
        /\ result.estimatedCost = Chosen.costPer1kTokens * estimatedTokens
        /\ result.estimatedCost >= 0
        /\ \A t \in TokenValues :
              /\ calculateCost(Chosen, t) >= 0
              /\ calculateCost(Chosen, t + estimatedTokens)
                    = calculateCost(Chosen, t) + result.estimatedCost
              /\ t <= estimatedTokens => calculateCost(Chosen, t) <= result.estimatedCost
              /\ t >= estimatedTokens => calculateCost(Chosen, t) >= result.estimatedCost

\* the cost of a scored choice that is not the cheapest model
C9_Witness ==
    /\ Done /\ IsScored /\ ~CheapestInCatalog(result.config)
    /\ estimatedTokens = 2000 /\ result.estimatedCost = 2500000

---------------------------------------------------------------------------
(* C10: nothing a caller does to the values it receives changes the        *)
(* catalog used by later selections: after the caller mutates the array    *)
(* returned by getAvailableModels, a field of a descriptor in that array,  *)
(* or the config of a result of selectModel, the descriptors the catalog   *)
(* holds, which are what the next getAvailableModels returns and what the  *)
(* next selectModel filters and scores, are those it was built with.       *)
C10_CallerCannotChangeCatalog == CatalogValue = DefaultModels

---------------------------------------------------------------------------
(* C11: selectModel has no side effect on the catalog: after any sequence  *)
(* of selectModel calls the catalog is identical to its initial value, and *)
(* a call with the criteria and token estimate of an earlier call returns  *)
(* the same model, the same estimatedCost and the same reasoning.          *)
C11_SelectModelLeavesCatalogAlone ==
    [][SelectModel =>
          /\ arrays'[ThisModels] = arrays[ThisModels]
          /\ CatalogValue' = CatalogValue
          /\ CatalogValue' = DefaultModels
          /\ Done => /\ result'.config = result.config
                     /\ result'.estimatedCost = result.estimatedCost
                     /\ result'.reasoning = result.reasoning]_vars

\* a scored selection made, and the catalog read back as it was built
C11_Witness ==
    /\ Done /\ IsScored /\ held = ReturnedArray
    /\ arrays[held] = [i \in DOMAIN DefaultModels |-> i]
    /\ CatalogValue = DefaultModels

---------------------------------------------------------------------------
(* C12: selectModel with customerTier omitted returns the same model and   *)
(* the same estimatedCost as with customerTier = standard, for every       *)
(* complexity, urgency, channel, contextLength and token estimate.         *)
C12_OmittedTierIsStandard ==
    (Done /\ criteria.customerTier = "undefined") =>
        LET std == selectModel([criteria EXCEPT !.customerTier = "standard"],
                               estimatedTokens)
        IN  /\ std.config = result.config
            /\ std.estimatedCost = result.estimatedCost

\* a scored selection with the tier omitted whose winner would have been
\* rated higher, by the standard-tier bonus, had the tier been spelled out
C12_Witness ==
    /\ Done /\ IsScored /\ criteria.customerTier = "undefined"
    /\ estimatedTokens > 0
    /\ calculateEffectivenessScore(Chosen, criteria)
          < calculateEffectivenessScore(Chosen, [criteria EXCEPT !.customerTier = "standard"])

---------------------------------------------------------------------------
(* The cost ledger: CostTrackingService *)

\* bounds of the ledger's model: write calls started, clock ticks
MaxCalls == 2
MaxNow == 1

\* ticks from one local midnight to the next
DayLength == 2

\* the suffixes generateId can draw, in the order of their strings
\* (Math.random().toString(36).substr(2, 9)); a suffix is named by its index
RandomSuffixes == <<"4fzzzxjyl", "8w0ka2xsm">>

\* `cost_${Date.now()}_${suffix}`: ids compare as their strings do
generateId(ms, k) == <<ms, k>>
IdLess(a, b) == a[1] < b[1] \/ (a[1] = b[1] /\ a[2] < b[2])

(* Numbers the ledger derives by division, as doubles behave *)

Frac(n, d) == [num |-> n, den |-> d]
NaN == Frac(0, 0)
Infinity == Frac(1, 0)
Abs(n) == IF n < 0 THEN -n ELSE n
Sign(n) == IF n < 0 THEN -1 ELSE IF n > 0 THEN 1 ELSE 0

RECURSIVE GCD(_, _)
GCD(a, b) == IF b = 0 THEN a ELSE GCD(b, a % b)

\* the double n / d in lowest terms
Norm(n, d) ==
    IF d = 0 THEN Frac(Sign(n), 0)
    ELSE LET g == GCD(Abs(n), Abs(d))
         IN  Frac(Sign(d) * (n \div g), Abs(d) \div g)

Num(n) == Frac(n, 1)
IsNaN(x) == x.den = 0 /\ x.num = 0
IsFinite(x) == x.den # 0
Neg(x) == Frac(-x.num, x.den)
Mul(x, y) == Norm(x.num * y.num, x.den * y.den)
Div(x, y) == Norm(x.num * y.den, x.den * y.num)
Add(x, y) ==
    IF x.den = 0 /\ y.den = 0
    THEN (IF x.num = y.num THEN x ELSE NaN)
    ELSE Norm(x.num * y.den + y.num * x.den, x.den * y.den)
Sub(x, y) == Add(x, Neg(y))
\* x > y; false when either is NaN
Greater(x, y) == ~IsNaN(x) /\ ~IsNaN(y) /\ x.num * y.den > y.num * x.den

(* Firestore, as the ledger uses it *)

Fields(doc) == DOMAIN doc
Merge(doc, data) ==
    [f \in Fields(doc) \cup Fields(data) |-> IF f \in Fields(data) THEN data[f] ELSE doc[f]]

\* doc(id).set(data): creates the document or replaces it whole
docSet(st, id, data) == [i \in DOMAIN st \cup {id} |-> IF i = id THEN data ELSE st[i]]

docUpdate_Replaces(st, id, data) == [st EXCEPT ![id] = data]

\* doc(id).update(data): patches the fields of an existing document, and
\* is rejected (NOT_FOUND) when there is none
docExists(st, id) == id \in DOMAIN st
docUpdate(st, id, data) == [st EXCEPT ![id] = Merge(@, data)]

\* the ids of the documents a range query on timestamp matches
matching(st, startDate, endDate) ==
    {i \in DOMAIN st : st[i].timestamp >= startDate /\ st[i].timestamp <= endDate}

\* a set of ids as the snapshot lists them: by timestamp, then by id
RECURSIVE ordered(_, _)
ordered(st, ids) ==
    IF ids = {} THEN <<>>
    ELSE LET first == CHOOSE i \in ids : \A j \in ids \ {i} :
                         \/ st[i].timestamp < st[j].timestamp
                         \/ (st[i].timestamp = st[j].timestamp /\ IdLess(i, j))
         IN  <<st[first]>> \o ordered(st, ids \ {first})

\* collection('ai_model_usage').where('timestamp', '>=', startDate)
\*     .where('timestamp', '<=', endDate).get(), then docs.map(doc => doc.data())
queryRecords(st, startDate, endDate) == ordered(st, matching(st, startDate, endDate))

(* The aggregation of getCostSummary *)

\* record.actualCost || record.estimatedCost: an absent actualCost is
\* undefined, and undefined and 0 are both falsy
costOf(record) ==
    IF "actualCost" \in Fields(record) /\ record.actualCost # 0
    THEN record.actualCost
    ELSE record.estimatedCost

\* records.reduce((sum, record) => sum + costOf(record), 0)
RECURSIVE sumCosts(_)
sumCosts(records) ==
    IF records = <<>> THEN 0 ELSE costOf(records[1]) + sumCosts(Tail(records))

RECURSIVE sumTokens(_)
sumTokens(records) ==
    IF records = <<>> THEN 0 ELSE records[1].totalTokens + sumTokens(Tail(records))

\* one step of groupCostsBy's reducer: acc[key] = (acc[key] || 0) + cost;
\* acc lists the keys in the order they were first written
addToGroup(acc, key, cost) ==
    IF \E i \in DOMAIN acc : acc[i].key = key
    THEN [i \in DOMAIN acc |->
             IF acc[i].key = key THEN [key |-> key, cost |-> acc[i].cost + cost] ELSE acc[i]]
    ELSE Append(acc, [key |-> key, cost |-> cost])

RECURSIVE groupFrom(_, _, _)
groupFrom(records, field, acc) ==
    IF records = <<>> THEN acc
    ELSE groupFrom(Tail(records), field,
                   addToGroup(acc, records[1][field], costOf(records[1])))

groupCostsBy(records, field) == groupFrom(records, field, <<>>)

\* the records of one model
ofModel(records, modelName) == SelectSeq(records, LAMBDA r : r.modelName = modelName)

\* the reducer of calculateCostSavings that finds the model with the
\* highest aggregate cost, starting from { model: '', cost: 0 }
RECURSIVE mostExpensiveFrom(_, _, _)
mostExpensiveFrom(records, i, max) ==
    IF i > Len(records) THEN max
    ELSE LET modelCost == sumCosts(ofModel(records, records[i].modelName))
         IN  mostExpensiveFrom(records, i + 1,
                 IF modelCost > max.cost
                 THEN [model |-> records[i].modelName, cost |-> modelCost]
                 ELSE max)

\* Math.max(...numbers): NaN if any is NaN, -Infinity of none
RECURSIVE mathMax(_)
mathMax(numbers) ==
    IF numbers = <<>> THEN Neg(Infinity)
    ELSE LET rest == mathMax(Tail(numbers))
             x == numbers[1]
         IN  IF IsNaN(x) \/ IsNaN(rest) THEN NaN
             ELSE IF Greater(x, rest) THEN x ELSE rest

calculateCostSavings(records) ==
    LET mostExpensiveModel == mostExpensiveFrom(records, 1, [model |-> "", cost |-> 0])
    IN  IF mostExpensiveModel.model # ""
        THEN LET theirs == ofModel(records, mostExpensiveModel.model)
                 mostExpensiveCostPerToken ==
                     mathMax([i \in DOMAIN theirs |->
                                 Div(Num(theirs[i].estimatedCost), Num(theirs[i].totalTokens))])
                 alwaysExpensiveCost == Mul(Num(sumTokens(records)), mostExpensiveCostPerToken)
             IN  Sub(alwaysExpensiveCost, Num(sumCosts(records)))
        ELSE Num(0)

getEmptySummary(startDate, endDate) ==
    [totalCost |-> 0,
     totalRequests |-> 0,
     averageCostPerRequest |-> Num(0),
     costByModel |-> <<>>,
     costByChannel |-> <<>>,
     costByComplexity |-> <<>>,
     costSavings |-> Num(0),
     costSavingsPercentage |-> Num(0),
     period |-> [startDate |-> startDate, endDate |-> endDate]]

\* getCostSummary over the collection st; readOk tells whether the query
\* was answered (true) or rejected (false, caught and logged)
getCostSummary(st, startDate, endDate, readOk) ==
    IF ~readOk THEN getEmptySummary(startDate, endDate)
    ELSE LET records == queryRecords(st, startDate, endDate)
         IN  IF Len(records) = 0 THEN getEmptySummary(startDate, endDate)
             ELSE LET totalCost == sumCosts(records)
                      totalRequests == Len(records)
                      costSavings == calculateCostSavings(records)
                  IN  [totalCost |-> totalCost,
                       totalRequests |-> totalRequests,
                       averageCostPerRequest |-> Div(Num(totalCost), Num(totalRequests)),
                       costByModel |-> groupCostsBy(records, "modelName"),
                       costByChannel |-> groupCostsBy(records, "channel"),
                       costByComplexity |-> groupCostsBy(records, "complexity"),
                       costSavings |-> costSavings,
                       costSavingsPercentage |->
                           Mul(Div(costSavings, Add(Num(totalCost), costSavings)), Num(100)),
                       period |-> [startDate |-> startDate, endDate |-> endDate]]

(* The reports built on getCostSummary *)

\* new Date() with setHours(0, 0, 0, 0), and with setHours(23, 59, 59, 999)
startOfDay(t) == t - (t % DayLength)
endOfDay(t) == startOfDay(t) + DayLength - 1

RECURSIVE sumGroup(_)
sumGroup(entries) ==
    IF entries = <<>> THEN 0 ELSE entries[1].cost + sumGroup(Tail(entries))

\* sort((a, b) => b.cost - a.cost): stable, x goes before the first element
\* of lower cost
insertByCost(sorted, x) ==
    LET after == {i \in DOMAIN sorted : sorted[i].cost < x.cost}
        pos == IF after = {} THEN Len(sorted) + 1
               ELSE CHOOSE i \in after : \A j \in after : i <= j
    IN  SubSeq(sorted, 1, pos - 1) \o <<x>> \o SubSeq(sorted, pos, Len(sorted))

RECURSIVE sortByCostFrom(_, _, _)
sortByCostFrom(arr, i, sorted) ==
    IF i > Len(arr) THEN sorted
    ELSE sortByCostFrom(arr, i + 1, insertByCost(sorted, arr[i]))

slice_Whole(arr, n) == arr

slice(arr, n) == SubSeq(arr, 1, Min(n, Len(arr)))

getCurrentDayMetrics(st, t, readOk) ==
    LET summary == getCostSummary(st, startOfDay(t), endOfDay(t), readOk)
        total == sumGroup(summary.costByModel)
        entries == [i \in DOMAIN summary.costByModel |->
                       [model |-> summary.costByModel[i].key,
                        cost |-> summary.costByModel[i].cost,
                        usage |-> IF total > 0
                                  THEN Mul(Div(Num(summary.costByModel[i].cost), Num(total)),
                                           Num(100))
                                  ELSE Num(0)]]
    IN  [totalCost |-> summary.totalCost,
         requestCount |-> summary.totalRequests,
         averageCostPerRequest |-> summary.averageCostPerRequest,
         topModels |-> slice(sortByCostFrom(entries, 1, <<>>), 5)]

\* the loop of getCostTrends from i = days - 1 down to 0; failed is the
\* set of i whose query was rejected; a day is labelled by its number (the
\* service runs in UTC, where the date of toISOString() is the calendar day
\* that setHours() delimits)
RECURSIVE trendsFrom(_, _, _, _, _)
trendsFrom(st, t, i, failed, trends) ==
    IF i < 0 THEN trends
    ELSE LET date == t - i * DayLength
             daySummary == getCostSummary(st, startOfDay(date), endOfDay(date),
                                          i \notin failed)
         IN  trendsFrom(st, t, i - 1, failed,
                 Append(trends, [date |-> startOfDay(date) \div DayLength,
                                 totalCost |-> daySummary.totalCost,
                                 requestCount |-> daySummary.totalRequests,
                                 averageCost |-> daySummary.averageCostPerRequest]))

getCostTrends_FromDays(st, t, days, failed) == trendsFrom(st, t, days, failed, <<>>)

getCostTrends(st, t, days, failed) == trendsFrom(st, t, days - 1, failed, <<>>)

\* dailyBudget * 0.8 is exact for the whole-dollar budgets of the model:
\* totalCost > dailyBudget * 0.8 is 10 * totalCost > 8 * dailyBudget
checkBudgetAlert(st, t, dailyBudget, readOk) ==
    LET todayMetrics == getCurrentDayMetrics(st, t, readOk)
    IN  [withinBudget |-> todayMetrics.totalCost <= dailyBudget,
         currentSpending |-> todayMetrics.totalCost,
         budgetRemaining |-> dailyBudget - todayMetrics.totalCost,
         alertTriggered |-> 10 * todayMetrics.totalCost > 8 * dailyBudget]

maxEntryFrom_First(entries, i, max) == max

\* modelEntries.reduce((max, current) => current[1] > max[1] ? current : max)
RECURSIVE maxEntryFrom(_, _, _)
maxEntryFrom(entries, i, max) ==
    IF i > Len(entries) THEN max
    ELSE maxEntryFrom(entries, i + 1, IF entries[i].cost > max.cost THEN entries[i] ELSE max)

isHighCostChannel_AboveQuarter(cost, totalCost) == 4 * cost > totalCost

\* the filter ([_, cost]) => cost > summary.totalCost * 0.2, exact for
\* whole dollars as 5 * cost > totalCost
isHighCostChannel(cost, totalCost) == 5 * cost > totalCost

getOptimizationRecommendations(st, t, readOk) ==
    LET last30Days == t - 30 * DayLength
        summary == getCostSummary(st, last30Days, t, readOk)
        modelEntries == summary.costByModel
        modelSwitch ==
            IF Len(modelEntries) > 0
            THEN LET mostExpensive == maxEntryFrom(modelEntries, 2, modelEntries[1])
                     potentialSavings == Mul(Num(mostExpensive.cost), Frac(3, 10))
                 IN  IF Greater(potentialSavings, Num(1))
                     THEN <<[type |-> "model_switch",
                             subject |-> <<mostExpensive.key>>,
                             potentialSavings |-> potentialSavings,
                             confidence |-> "medium",
                             implementationEffort |-> "low"]>>
                     ELSE <<>>
            ELSE <<>>
        channelEntries == summary.costByChannel
        channelOptimization ==
            IF Len(channelEntries) > 0
            THEN LET highCostChannels ==
                         SelectSeq(channelEntries,
                                   LAMBDA e : isHighCostChannel(e.cost, summary.totalCost))
                 IN  IF Len(highCostChannels) > 0
                     THEN <<[type |-> "channel_optimization",
                             subject |-> [i \in DOMAIN highCostChannels |->
                                             highCostChannels[i].key],
                             potentialSavings |->
                                 Mul(Num(sumGroup(highCostChannels)), Frac(1, 5)),
                             confidence |-> "high",
                             implementationEffort |-> "medium"]>>
                     ELSE <<>>
            ELSE <<>>
    IN  modelSwitch \o channelOptimization

---------------------------------------------------------------------------
(* State machine of the ledger: its callers, the clock and the store *)

\* usage records callers pass to recordUsage: a cheap request, a costly
\* one, and a failed one as the pipeline records it (cost 0, the tokens of
\* the prompt only)
CheapUsage ==
    [sessionId |-> "s1", modelName |-> "Gemini 1.5 Flash", totalTokens |-> 1000,
     estimatedCost |-> 1, channel |-> "sms", complexity |-> "simple", success |-> TRUE]
CostlyUsage ==
    [sessionId |-> "s2", modelName |-> "Claude Opus 4.1", totalTokens |-> 2000,
     estimatedCost |-> 79, channel |-> "voice", complexity |-> "complex", success |-> TRUE]
FailedUsage ==
    [sessionId |-> "s3", modelName |-> "gemini-2.5-flash", totalTokens |-> 10,
     estimatedCost |-> 0, channel |-> "chat", complexity |-> "moderate",
     success |-> FALSE, errorMessage |-> "Unknown error"]
UsageSamples == {CheapUsage, CostlyUsage, FailedUsage}

\* billed costs callers pass to updateActualCost
ActualCosts == {0, 2}
\* an id no event was stored under
MissingId == generateId(0, 0)
\* windows callers pass to getCostSummary
Windows == {[startDate |-> 0, endDate |-> MaxNow], [startDate |-> 1, endDate |-> 1]}
DailyBudgets == {0, 100}
TrendDays == {1, 2}

recordUsageSettled_Rethrows(writeOk) ==
    [call |-> "recordUsage",
     settled |-> IF writeOk THEN "resolved" ELSE "rejected",
     logged |-> IF writeOk THEN "info" ELSE "error"]

\* how a recordUsage call ends: the catch logs the error and swallows it
recordUsageSettled(writeOk) ==
    [call |-> "recordUsage",
     settled |-> "resolved",
     logged |-> IF writeOk THEN "info" ELSE "error"]

updateActualCostSettled(writeOk) ==
    [call |-> "updateActualCost",
     settled |-> "resolved",
     logged |-> IF writeOk THEN "info" ELSE "error"]

\* a read that lets the rejection of its query through to the caller
returned_Rejected(call, value, readOk) ==
    [call |-> call, settled |-> IF readOk THEN "resolved" ELSE "rejected",
     logged |-> IF readOk THEN "none" ELSE "error", value |-> value]

\* the value a read returns; it logs an error when a query was rejected
returned(call, value, readOk) ==
    [call |-> call, settled |-> "resolved",
     logged |-> IF readOk THEN "none" ELSE "error", value |-> value]

\* the selector of the ledger's process, idle
IdleSelector ==
    /\ InitSelector
    /\ criteria = [complexity |-> "simple", urgency |-> "low",
                   contextLength |-> ContextSamples[1],
                   customerTier |-> "standard", channel |-> "sms"]
    /\ estimatedTokens = TokenSamples[2]

\* a service started over the collection st at time t
StartedOver(st, t) ==
    /\ store = st
    /\ inflight = {}
    /\ now = t
    /\ outcome = NoOutcome
    /\ recordedLog = 0
    /\ calls = 0
    /\ pipeline = NoInvocation

InitLedger ==
    /\ IdleSelector
    /\ InitLedgerVars

\* { ...record, id: this.generateId(), timestamp: new Date() }
costRecordOf(record, ms, k) == Merge(record, [id |-> generateId(ms, k), timestamp |-> ms])

\* recordUsage(record) up to its await: the record gets its id and its
\* timestamp, and the write is sent
recordUsageAwaits(record, k) ==
    /\ calls < MaxCalls
    /\ LET costRecord == costRecordOf(record, now, k)
       IN  inflight' = inflight \cup {[call |-> "recordUsage", serial |-> calls + 1,
                                        id |-> costRecord.id, data |-> costRecord]}
    /\ calls' = calls + 1
    /\ UNCHANGED <<store, now, outcome, recordedLog>>

RecordUsage(record, k) ==
    /\ recordUsageAwaits(record, k)
    /\ UNCHANGED <<selectorVars, pipeline>>

\* the write of a recordUsage call is answered
recordUsageResumes(request, writeOk) ==
    /\ request \in inflight
    /\ request.call = "recordUsage"
    /\ store' = IF writeOk THEN docSet(store, request.id, request.data) ELSE store
    /\ recordedLog' = IF writeOk THEN recordedLog + 1 ELSE recordedLog
    /\ outcome' = recordUsageSettled(writeOk)
    /\ inflight' = inflight \ {request}
    /\ UNCHANGED <<now, calls>>

RecordUsageSettles(request, writeOk) ==
    /\ recordUsageResumes(request, writeOk)
    /\ UNCHANGED <<selectorVars, pipeline>>

\* { actualCost, updatedAt: new Date() }
patchOf(actualCost, ms) == [actualCost |-> actualCost, updatedAt |-> ms]

\* updateActualCost(recordId, actualCost) up to its await
UpdateActualCost(recordId, actualCost) ==
    /\ calls < MaxCalls
    /\ inflight' = inflight \cup {[call |-> "updateActualCost", serial |-> calls + 1,
                                    id |-> recordId,
                                    data |-> patchOf(actualCost, now)]}
    /\ calls' = calls + 1
    /\ UNCHANGED <<store, now, outcome, recordedLog>>
    /\ UNCHANGED <<selectorVars, pipeline>>

\* the patch of an updateActualCost call is answered: applied if the store
\* accepts it and the document exists
UpdateActualCostSettles(request, writeOk) ==
    /\ request \in inflight
    /\ request.call = "updateActualCost"
    /\ LET applied == writeOk /\ docExists(store, request.id)
       IN  /\ store' = IF applied
                       THEN docUpdate(store, request.id, request.data)
                       ELSE store
           /\ outcome' = updateActualCostSettled(applied)
    /\ inflight' = inflight \ {request}
    /\ UNCHANGED <<now, recordedLog, calls>>
    /\ UNCHANGED <<selectorVars, pipeline>>

\* a summary that removes from the collection the events it has reported
GetCostSummary_Clearing(window, readOk) ==
    /\ outcome' = returned("getCostSummary",
                           getCostSummary(store, window.startDate, window.endDate, readOk),
                           readOk)
    /\ store' = [i \in {j \in DOMAIN store :
                            \/ ~readOk
                            \/ store[j].timestamp < window.startDate
                            \/ store[j].timestamp > window.endDate} |-> store[i]]
    /\ UNCHANGED <<inflight, now, recordedLog, calls>>
    /\ UNCHANGED <<selectorVars, pipeline>>

GetCostSummary(window, readOk) ==
    /\ outcome' = returned("getCostSummary",
                           getCostSummary(store, window.startDate, window.endDate, readOk),
                           readOk)
    /\ UNCHANGED <<store, inflight, now, recordedLog, calls>>
    /\ UNCHANGED <<selectorVars, pipeline>>

GetCurrentDayMetrics(readOk) ==
    /\ outcome' = returned("getCurrentDayMetrics",
                           getCurrentDayMetrics(store, now, readOk), readOk)
    /\ UNCHANGED <<store, inflight, now, recordedLog, calls>>
    /\ UNCHANGED <<selectorVars, pipeline>>

GetCostTrends(days, failed) ==
    /\ outcome' = returned("getCostTrends", getCostTrends(store, now, days, failed),
                           failed = {})
    /\ UNCHANGED <<store, inflight, now, recordedLog, calls>>
    /\ UNCHANGED <<selectorVars, pipeline>>

CheckBudgetAlert(dailyBudget, readOk) ==
    /\ outcome' = [returned("checkBudgetAlert",
                            checkBudgetAlert(store, now, dailyBudget, readOk), readOk)
                   EXCEPT !.logged =
                       IF ~readOk THEN "error"
                       ELSE IF checkBudgetAlert(store, now, dailyBudget, readOk).alertTriggered
                            THEN "warn" ELSE "none"]
    /\ UNCHANGED <<store, inflight, now, recordedLog, calls>>
    /\ UNCHANGED <<selectorVars, pipeline>>

GetOptimizationRecommendations(readOk) ==
    /\ outcome' = returned("getOptimizationRecommendations",
                           getOptimizationRecommendations(store, now, readOk), readOk)
    /\ UNCHANGED <<store, inflight, now, recordedLog, calls>>
    /\ UNCHANGED <<selectorVars, pipeline>>

\* the clock advances
Tick ==
    /\ now < MaxNow
    /\ now' = now + 1
    /\ UNCHANGED <<store, inflight, outcome, recordedLog, calls>>
    /\ UNCHANGED <<selectorVars, pipeline>>

NextLedger ==
    \/ \E record \in UsageSamples : \E k \in DOMAIN RandomSuffixes : RecordUsage(record, k)
    \/ \E request \in inflight : \E writeOk \in BOOLEAN :
          RecordUsageSettles(request, writeOk)
    \/ \E recordId \in DOMAIN store \cup {MissingId} : \E actualCost \in ActualCosts :
          UpdateActualCost(recordId, actualCost)
    \/ \E request \in inflight : \E writeOk \in BOOLEAN :
          UpdateActualCostSettles(request, writeOk)
    \/ \E readOk \in BOOLEAN :
          GetCostSummary([startDate |-> 0, endDate |-> MaxNow], readOk)
    \/ Tick

SpecLedger == InitLedger /\ [][NextLedger]_vars

---------------------------------------------------------------------------
(* A service started over a collection that already holds events *)

\* events as recordUsage stored them on the first day, one of them later
\* patched by updateActualCost, and one in two versions: as stored, and
\* patched with an actual cost of 0
StoredCheap == costRecordOf(CheapUsage, 0, 1)
StoredCheapBilledZero == Merge(StoredCheap, patchOf(0, 1))
StoredCostly == costRecordOf(CostlyUsage, 0, 2)
StoredFailed == costRecordOf(FailedUsage, 1, 1)
StoredCheapBilled == Merge(costRecordOf(CheapUsage, 1, 2), patchOf(2, 1))
StoredEvents == {StoredCheap, StoredCheapBilledZero, StoredCostly, StoredFailed,
                 StoredCheapBilled}

\* the collection holding the documents docs, each under its id
collectionOf(docs) == [i \in {d.id : d \in docs} |-> CHOOSE d \in docs : d.id = i]

PersistedStores ==
    {collectionOf(docs) :
        docs \in {ds \in SUBSET StoredEvents : \A d, e \in ds : d.id = e.id => d = e}}

\* the two events the patching callers work on
StoredBefore == collectionOf({StoredCheap, StoredCostly})

InitPatches ==
    /\ IdleSelector
    /\ StartedOver(StoredBefore, 0)

NextPatches ==
    \/ \E recordId \in DOMAIN store \cup {MissingId} : \E actualCost \in ActualCosts :
          UpdateActualCost(recordId, actualCost)
    \/ \E request \in inflight : \E writeOk \in BOOLEAN :
          UpdateActualCostSettles(request, writeOk)
    \/ \E window \in Windows : \E readOk \in BOOLEAN : GetCostSummary(window, readOk)
    \/ Tick

SpecPatches == InitPatches /\ [][NextPatches]_vars

\* every event of st was recorded, and patched, no later than t
writtenBy(st, t) ==
    \A i \in DOMAIN st :
        /\ st[i].timestamp <= t
        /\ "updatedAt" \in Fields(st[i]) => st[i].updatedAt <= t

InitReports ==
    /\ IdleSelector
    /\ \E st \in PersistedStores : \E t \in 0..MaxNow :
          writtenBy(st, t) /\ StartedOver(st, t)

NextReports ==
    \/ \E window \in Windows : \E readOk \in BOOLEAN : GetCostSummary(window, readOk)
    \/ \E readOk \in BOOLEAN : GetCurrentDayMetrics(readOk)
    \/ \E days \in TrendDays : \E failed \in SUBSET (0..(days - 1)) : GetCostTrends(days, failed)
    \/ \E dailyBudget \in DailyBudgets : \E readOk \in BOOLEAN :
          CheckBudgetAlert(dailyBudget, readOk)
    \/ \E readOk \in BOOLEAN : GetOptimizationRecommendations(readOk)
    \/ Tick

SpecReports == InitReports /\ [][NextReports]_vars

---------------------------------------------------------------------------
(* Vocabulary of the ledger's properties *)

\* the window that covers every timestamp of the model
WholeWindow == [startDate |-> 0, endDate |-> MaxNow]
SummaryOfAll == getCostSummary(store, WholeWindow.startDate, WholeWindow.endDate, TRUE)

SettlesRecordUsage(request, writeOk) == RecordUsageSettles(request, writeOk)
PatchApplied(request) ==
    UpdateActualCostSettles(request, TRUE) /\ docExists(store, request.id)

\* the cost the specification counts for an event: its actualCost when one
\* has been recorded, whatever its value, else its estimatedCost
BilledCost(doc) ==
    IF "actualCost" \in Fields(doc) THEN doc.actualCost ELSE doc.estimatedCost

RECURSIVE SumBilled(_, _)
SumBilled(st, ids) ==
    IF ids = {} THEN 0
    ELSE LET i == CHOOSE j \in ids : TRUE
         IN  BilledCost(st[i]) + SumBilled(st, ids \ {i})

---------------------------------------------------------------------------
(* C13: every successful recordUsage call adds exactly one new event,      *)
(* under an id different from every id already in the ledger, and leaves   *)
(* the stored events unchanged: after N successful calls, in any           *)
(* interleaving, the ledger holds N events and a getCostSummary whose      *)
(* window covers them reports totalRequests = N.                           *)
C13_EachRecordedCallAddsOneEvent ==
    /\ Cardinality(DOMAIN store) = recordedLog
    /\ SummaryOfAll.totalRequests = recordedLog
    /\ \A request \in inflight :
          request.call = "recordUsage" => ~docExists(store, request.id)

---------------------------------------------------------------------------
(* C14: recordUsage never throws or rejects: when the store write fails    *)
(* the error is logged and swallowed, the call completes normally and the  *)
(* ledger is left unchanged, no partial event being stored.                *)
C14_RecordUsageSwallowsWriteFailure ==
    [][\A request \in inflight : \A writeOk \in BOOLEAN :
          SettlesRecordUsage(request, writeOk) =>
              /\ outcome'.call = "recordUsage"
              /\ outcome'.settled = "resolved"
              /\ ~writeOk => /\ outcome'.logged = "error"
                             /\ store' = store
                             /\ recordedLog' = recordedLog]_vars

\* a recordUsage call whose write failed has returned, the ledger empty
C14_Witness ==
    /\ outcome.call = "recordUsage" /\ outcome.logged = "error"
    /\ outcome.settled = "resolved"
    /\ calls = 1 /\ inflight = {} /\ store = <<>>

---------------------------------------------------------------------------
(* C15: for each event in the window getCostSummary counts the event's     *)
(* actualCost whenever one has been recorded by updateActualCost, whatever *)
(* its value, 0 included, and its estimatedCost only when none has been    *)
(* recorded; this holds for totalCost and for the groupings by model, by   *)
(* channel and by complexity.                                              *)
GroupIsBilled(entries, field) ==
    \A i \in DOMAIN entries :
        entries[i].cost = SumBilled(store, {j \in DOMAIN store :
                                                store[j][field] = entries[i].key})

C15_ActualCostCountedWheneverRecorded ==
    /\ SummaryOfAll.totalCost = SumBilled(store, DOMAIN store)
    /\ GroupIsBilled(SummaryOfAll.costByModel, "modelName")
    /\ GroupIsBilled(SummaryOfAll.costByChannel, "channel")
    /\ GroupIsBilled(SummaryOfAll.costByComplexity, "complexity")

---------------------------------------------------------------------------
(* C18, as claimed: updateActualCost(eventId, c) on an existing event      *)
(* changes nothing in the ledger except that event's actualCost: no other  *)
(* field of the stored event is added or modified, every other event is    *)
(* unchanged and the number of events is unchanged; for an eventId that is *)
(* not in the ledger it creates no event, changes nothing and does not     *)
(* throw.                                                                  *)
PatchTouchesOnly(request, fields) ==
    LET id == request.id
    IN  /\ DOMAIN store' = DOMAIN store
        /\ \A i \in DOMAIN store \ {id} : store'[i] = store[i]
        /\ store'[id].actualCost = request.data.actualCost
        /\ Fields(store'[id]) \subseteq Fields(store[id]) \cup fields
        /\ \A f \in Fields(store[id]) \ fields :
              f \in Fields(store'[id]) /\ store'[id][f] = store[id][f]

PatchOfMissingEventIsNoOp(request) ==
    (UpdateActualCostSettles(request, TRUE) /\ ~docExists(store, request.id)) =>
        /\ store' = store
        /\ outcome'.call = "updateActualCost"
        /\ outcome'.settled = "resolved"

C18_PatchChangesOnlyActualCost ==
    [][\A request \in inflight :
          /\ PatchApplied(request) => PatchTouchesOnly(request, {"actualCost"})
          /\ PatchOfMissingEventIsNoOp(request)]_vars

(* C18, amended: updateActualCost(eventId, c) on an existing event changes *)
(* nothing in the ledger except that event's actualCost and the updatedAt  *)
(* field it sets on the event to the time of the call: no other field of   *)
(* the stored event is added or modified, every other event and the number *)
(* of events are unchanged; for an eventId that is not in the ledger it    *)
(* creates no event, changes nothing and does not throw.                   *)
C18_PatchChangesActualCostAndUpdatedAt ==
    [][\A request \in inflight :
          /\ PatchApplied(request) =>
                /\ PatchTouchesOnly(request, {"actualCost", "updatedAt"})
                /\ store'[request.id].updatedAt = request.data.updatedAt
                /\ outcome'.settled = "resolved"
          /\ PatchOfMissingEventIsNoOp(request)]_vars

\* a costly event recorded and then patched to an actual cost of 2
C18_Witness ==
    /\ \E i \in DOMAIN store :
          /\ Fields(store[i]) = Fields(costRecordOf(CostlyUsage, 0, 1))
                                   \cup {"actualCost", "updatedAt"}
          /\ store[i].actualCost = 2 /\ store[i].estimatedCost = 79
    /\ outcome.call = "updateActualCost" /\ outcome.settled = "resolved"
    /\ inflight = {} /\ calls = 2

---------------------------------------------------------------------------
(* C19, as claimed: two updateActualCost calls on different events are     *)
(* independent, each event ending with its own patched actualCost in       *)
(* either order or interleaving; two calls on the same event leave it with *)
(* the actualCost of whichever write was applied last, with every other    *)
(* field of the event intact.                                              *)
\* the event a patch is applied to takes the patch's actualCost, whatever
\* was patched before and whichever call started first; the other event
\* keeps what it had
LastWriteWins(request) ==
    /\ store'[request.id].actualCost = request.data.actualCost
    /\ \A i \in DOMAIN store \ {request.id} : store'[i] = store[i]

\* the fields of the event other than those named are as before the patch
OtherFieldsIntact(request, fields) ==
    /\ Fields(store'[request.id]) \ fields = Fields(store[request.id]) \ fields
    /\ \A f \in Fields(store[request.id]) \ fields :
          f \in Fields(store'[request.id])
              /\ store'[request.id][f] = store[request.id][f]

C19_PatchesAreIndependentLastWins ==
    [][\A request \in inflight :
          PatchApplied(request) =>
              /\ LastWriteWins(request)
              /\ OtherFieldsIntact(request, {"actualCost"})]_vars

(* C19, amended: two updateActualCost calls on different events are        *)
(* independent, each event ending with its own patched actualCost in       *)
(* either order or interleaving; two calls on the same event leave it with *)
(* the actualCost, and the updatedAt call time, of whichever write was     *)
(* applied last, with every other field of the event intact.               *)
C19_PatchesAreIndependentLastWinsWithStamp ==
    [][\A request \in inflight :
          PatchApplied(request) =>
              /\ LastWriteWins(request)
              /\ store'[request.id].updatedAt = request.data.updatedAt
              /\ OtherFieldsIntact(request, {"actualCost", "updatedAt"})
              /\ \A i \in DOMAIN StoredBefore : \A f \in Fields(StoredBefore[i]) :
                    store'[i][f] = StoredBefore[i][f]]_vars

\* the call made first is still in flight while the patch of the call made
\* second, on the same event and with another cost, has been applied; the
\* other event is as it was stored
C19_Witness ==
    \E request \in inflight :
        /\ request.call = "updateActualCost" /\ request.serial = 1
        /\ docExists(store, request.id)
        /\ "actualCost" \in Fields(store[request.id])
        /\ store[request.id].actualCost # request.data.actualCost
        /\ \E i \in DOMAIN store \ {request.id} : store[i] = StoredBefore[i]

---------------------------------------------------------------------------
(* C16: getCostSummary resolves with the all-zero summary, and does not    *)
(* throw, both when no event lies in the window and when the store read    *)
(* fails; getCurrentDayMetrics, getCostTrends, checkBudgetAlert and        *)
(* getOptimizationRecommendations likewise resolve with zero or empty      *)
(* results in those situations.                                            *)
NoEventIn(st, startDate, endDate) ==
    \A i \in DOMAIN st : st[i].timestamp < startDate \/ st[i].timestamp > endDate

NoEventOnDayOf(st, t) ==
    NoEventIn(st, t - (t % DayLength), t - (t % DayLength) + DayLength - 1)

Resolved(call) == outcome'.call = call /\ outcome'.settled = "resolved"

C16_ReadsDegradeToZero ==
    [][/\ \A window \in Windows : \A readOk \in BOOLEAN :
             GetCostSummary(window, readOk) =>
                 /\ Resolved("getCostSummary")
                 /\ ~readOk \/ NoEventIn(store, window.startDate, window.endDate) =>
                       /\ outcome'.value.totalCost = 0
                       /\ outcome'.value.totalRequests = 0
                       /\ outcome'.value.averageCostPerRequest = Num(0)
                       /\ outcome'.value.costByModel = <<>>
                       /\ outcome'.value.costByChannel = <<>>
                       /\ outcome'.value.costByComplexity = <<>>
                       /\ outcome'.value.costSavings = Num(0)
                       /\ outcome'.value.costSavingsPercentage = Num(0)
       /\ \A readOk \in BOOLEAN :
             GetCurrentDayMetrics(readOk) =>
                 /\ Resolved("getCurrentDayMetrics")
                 /\ ~readOk \/ NoEventOnDayOf(store, now) =>
                       outcome'.value = [totalCost |-> 0, requestCount |-> 0,
                                         averageCostPerRequest |-> Num(0),
                                         topModels |-> <<>>]
       /\ \A days \in TrendDays : \A failed \in SUBSET (0..(days - 1)) :
             GetCostTrends(days, failed) =>
                 /\ Resolved("getCostTrends")
                 /\ Len(outcome'.value) = days
                 /\ \A i \in 0..(days - 1) :
                       i \in failed \/ NoEventOnDayOf(store, now - i * DayLength) =>
                           /\ outcome'.value[days - i].totalCost = 0
                           /\ outcome'.value[days - i].requestCount = 0
                           /\ outcome'.value[days - i].averageCost = Num(0)
       /\ \A dailyBudget \in DailyBudgets : \A readOk \in BOOLEAN :
             CheckBudgetAlert(dailyBudget, readOk) =>
                 /\ Resolved("checkBudgetAlert")
                 /\ ~readOk \/ NoEventOnDayOf(store, now) =>
                       outcome'.value = [withinBudget |-> TRUE, currentSpending |-> 0,
                                         budgetRemaining |-> dailyBudget,
                                         alertTriggered |-> FALSE]
       /\ \A readOk \in BOOLEAN :
             GetOptimizationRecommendations(readOk) =>
                 /\ Resolved("getOptimizationRecommendations")
                 /\ ~readOk \/ store = <<>> => outcome'.value = <<>>]_vars

\* a summary whose query was rejected, over a window that holds events
C16_Witness ==
    /\ outcome.call = "getCostSummary"
    /\ outcome.logged = "error"
    /\ outcome.settled = "resolved"
    /\ outcome.value.totalRequests = 0
    /\ ~NoEventIn(store, outcome.value.period.startDate, outcome.value.period.endDate)

---------------------------------------------------------------------------
(* C17: checkBudgetAlert(dailyBudget) answers alertTriggered = true once   *)
(* today's total cost has reached 80% of dailyBudget and false while it is *)
(* below 80% of dailyBudget (with dailyBudget = 100: cost 81 gives true,   *)
(* cost 79 gives false).                                                   *)
\* the budget the last checkBudgetAlert was asked about
BudgetAsked == outcome.value.currentSpending + outcome.value.budgetRemaining

C17_AlertOnceEightyPercentReached ==
    /\ outcome.call = "checkBudgetAlert"
    /\ outcome.logged # "error"
    /\ BudgetAsked > 0
    => (outcome.value.alertTriggered
            <=> 10 * outcome.value.currentSpending >= 8 * BudgetAsked)

---------------------------------------------------------------------------
(* C20, as claimed: getCostSummary, getCurrentDayMetrics, getCostTrends,   *)
(* checkBudgetAlert and getOptimizationRecommendations leave the ledger    *)
(* unchanged, and two getCostSummary calls with the same window and no     *)
(* recordUsage or updateActualCost between them return identical results.  *)
\* a step of one of the five reads
ReadStep ==
    \/ \E window \in Windows : \E readOk \in BOOLEAN : GetCostSummary(window, readOk)
    \/ \E readOk \in BOOLEAN : GetCurrentDayMetrics(readOk)
    \/ \E days \in TrendDays : \E failed \in SUBSET (0..(days - 1)) :
          GetCostTrends(days, failed)
    \/ \E dailyBudget \in DailyBudgets : \E readOk \in BOOLEAN :
          CheckBudgetAlert(dailyBudget, readOk)
    \/ \E readOk \in BOOLEAN : GetOptimizationRecommendations(readOk)

LedgerUnchanged == store' = store /\ inflight' = inflight

\* the step is a getCostSummary call that follows a getCostSummary call
\* with the same window
SummaryAgain ==
    /\ outcome.call = "getCostSummary"
    /\ \E readOk \in BOOLEAN :
          GetCostSummary([startDate |-> outcome.value.period.startDate,
                          endDate |-> outcome.value.period.endDate], readOk)

C20_ReadsChangeNothingAndRepeat ==
    [][/\ ReadStep => LedgerUnchanged
       /\ SummaryAgain => outcome'.value = outcome.value]_vars

(* C20, amended: the five reads leave the ledger unchanged, and two        *)
(* getCostSummary calls with the same window and no recordUsage or         *)
(* updateActualCost between them return identical results when the store   *)
(* answers the query of both, or of neither.                               *)
C20_ReadsChangeNothingAndRepeatWhenAnswered ==
    [][/\ ReadStep => LedgerUnchanged
       /\ SummaryAgain /\ outcome'.logged = outcome.logged =>
              outcome'.value = outcome.value]_vars

\* a summary of a window that holds events, answered by the store, after
\* which the same summary can be asked for again
C20_Witness ==
    /\ outcome.call = "getCostSummary"
    /\ outcome.logged = "none"
    /\ outcome.value.totalRequests > 0
    /\ outcome.value.totalRequests =
           Cardinality({i \in DOMAIN store :
                           /\ store[i].timestamp >= outcome.value.period.startDate
                           /\ store[i].timestamp <= outcome.value.period.endDate})

---------------------------------------------------------------------------
(* A service started on a day on which up to six models were used *)

DayUsage(modelName, estimatedCost) ==
    [sessionId |-> "s4", modelName |-> modelName, totalTokens |-> 1000,
     estimatedCost |-> estimatedCost, channel |-> "chat", complexity |-> "moderate",
     success |-> TRUE]

\* one event for each of the first six catalog models, of costs 6 down to
\* 1, and a second event of the first model and of the second
BusyDayEvents ==
    {costRecordOf(DayUsage(DefaultModels[k].name, 7 - k), 0, k) : k \in 1..6}
        \cup {costRecordOf(DayUsage(DefaultModels[k - 6].name, 1), 0, k) : k \in 7..8}

BusyStores == {collectionOf(docs) : docs \in SUBSET BusyDayEvents}

InitBusyDay ==
    /\ IdleSelector
    /\ \E st \in BusyStores : \E t \in 0..MaxNow : writtenBy(st, t) /\ StartedOver(st, t)

NextBusyDay ==
    \/ \E readOk \in BOOLEAN : GetCurrentDayMetrics(readOk)
    \/ Tick

SpecBusyDay == InitBusyDay /\ [][NextBusyDay]_vars

---------------------------------------------------------------------------
(* C21, as claimed: getCurrentDayMetrics reports requestCount equal to the *)
(* number of events recorded today and a topModels list with one entry per *)
(* distinct model used today, at most five, ordered by cost descending,    *)
(* whose usage percentages sum to 100 whenever today's total cost is       *)
(* positive.                                                               *)
EventsOn(st, t) == {i \in DOMAIN st : st[i].timestamp \div DayLength = t \div DayLength}
ModelsOn(st, t) == {st[i].modelName : i \in EventsOn(st, t)}
ModelCostOn(st, t, m) == SumBilled(st, {i \in EventsOn(st, t) : st[i].modelName = m})

RECURSIVE SumUsage(_)
SumUsage(topModels) ==
    IF topModels = <<>> THEN Num(0)
    ELSE Add(topModels[1].usage, SumUsage(Tail(topModels)))

\* today's events are counted, and the list names models used today, none
\* twice and at most five, by cost descending
TopModelsListed(metrics) ==
    /\ metrics.requestCount = Cardinality(EventsOn(store, now))
    /\ Len(metrics.topModels) <= 5
    /\ \A i \in DOMAIN metrics.topModels :
          /\ metrics.topModels[i].model \in ModelsOn(store, now)
          /\ \A j \in DOMAIN metrics.topModels :
                /\ i # j => metrics.topModels[i].model # metrics.topModels[j].model
                /\ i < j => metrics.topModels[i].cost >= metrics.topModels[j].cost

C21_TopModelsShareTheWholeDay ==
    [][GetCurrentDayMetrics(TRUE) =>
          /\ TopModelsListed(outcome'.value)
          /\ outcome'.value.totalCost > 0 =>
                SumUsage(outcome'.value.topModels) = Num(100)]_vars

(* C21, amended: when the store answers, getCurrentDayMetrics reports      *)
(* requestCount equal to the number of events recorded today and a         *)
(* topModels list with one entry per distinct model used today if these    *)
(* are at most five, else the five of highest cost, ordered by cost        *)
(* descending; each entry's usage is its cost as a percentage of today's   *)
(* total cost, so the percentages sum to 100 whenever today's total cost   *)
(* is positive and at most five distinct models were used today, and to    *)
(* the listed models' share of the total otherwise.                        *)
C21_TopFiveShareOfTheDay ==
    [][GetCurrentDayMetrics(TRUE) =>
          LET metrics == outcome'.value
              listed == {metrics.topModels[i].model : i \in DOMAIN metrics.topModels}
          IN  /\ TopModelsListed(metrics)
              /\ Len(metrics.topModels) = Min(5, Cardinality(ModelsOn(store, now)))
              /\ \A i \in DOMAIN metrics.topModels :
                    metrics.topModels[i].cost =
                        ModelCostOn(store, now, metrics.topModels[i].model)
              /\ \A m \in ModelsOn(store, now) \ listed :
                    \A i \in DOMAIN metrics.topModels :
                        ModelCostOn(store, now, m) <= metrics.topModels[i].cost
              /\ metrics.totalCost > 0 =>
                    /\ SumUsage(metrics.topModels) =
                           Div(Num(100 * sumGroup(metrics.topModels)),
                               Num(metrics.totalCost))
                    /\ Cardinality(ModelsOn(store, now)) <= 5 =>
                           SumUsage(metrics.topModels) = Num(100)]_vars

\* today's metrics of a day with five events across three models
ScenarioD_FiveEventsOfThreeModels ==
    /\ outcome.call = "getCurrentDayMetrics"
    /\ outcome.logged = "none"
    /\ outcome.value.requestCount = 5
    /\ Cardinality(EventsOn(store, now)) = 5
    /\ Cardinality(ModelsOn(store, now)) = 3
    /\ Len(outcome.value.topModels) = 3
    /\ SumUsage(outcome.value.topModels) = Num(100)

\* today's metrics of a day on which six models were used
C21_Witness ==
    /\ outcome.call = "getCurrentDayMetrics"
    /\ outcome.logged = "none"
    /\ Cardinality(ModelsOn(store, now)) = 6
    /\ Len(outcome.value.topModels) = 5

---------------------------------------------------------------------------
(* A service started on the first or the second day of a ledger *)

StoredNextDay == costRecordOf(CheapUsage, DayLength, 1)
StoredNextDayCostly == costRecordOf(CostlyUsage, 2 * DayLength - 1, 2)
TrendEvents == {StoredCheap, StoredCostly, StoredFailed, StoredNextDay, StoredNextDayCostly}
TrendStores == {collectionOf(docs) : docs \in SUBSET TrendEvents}
TrendTimes == 0..(2 * DayLength - 1)

InitTrends ==
    /\ IdleSelector
    /\ \E st \in TrendStores : \E t \in TrendTimes : writtenBy(st, t) /\ StartedOver(st, t)

NextTrends ==
    \/ \E days \in TrendDays : \E failed \in SUBSET (0..(days - 1)) :
          GetCostTrends(days, failed)
    \/ Tick

SpecTrends == InitTrends /\ [][NextTrends]_vars

---------------------------------------------------------------------------
(* C22: getCostTrends(days), for days >= 1, returns exactly days entries,  *)
(* one per consecutive calendar day from (today - (days - 1)) through      *)
(* today, oldest first, and each entry's totalCost, requestCount and       *)
(* averageCost equal the getCostSummary of that calendar day, so every     *)
(* event of those days is counted in exactly one entry.                    *)
DayOf(t) == t \div DayLength
EventsOfDay(st, d) == {i \in DOMAIN st : DayOf(st[i].timestamp) = d}
SummaryOfDay(st, d) == getCostSummary(st, d * DayLength, (d + 1) * DayLength - 1, TRUE)

RECURSIVE SumRequests(_)
SumRequests(trends) ==
    IF trends = <<>> THEN 0 ELSE trends[1].requestCount + SumRequests(Tail(trends))

C22_OneTrendEntryPerDay ==
    [][\A days \in TrendDays : \A failed \in SUBSET (0..(days - 1)) :
          GetCostTrends(days, failed) =>
              LET trends == outcome'.value
              IN  /\ Len(trends) = days
                  /\ \A k \in 1..days :
                        LET d == DayOf(now) - (days - k)
                        IN  /\ trends[k].date = d
                            /\ days - k \notin failed =>
                                  /\ trends[k].requestCount =
                                         Cardinality(EventsOfDay(store, d))
                                  /\ trends[k].requestCount =
                                         SummaryOfDay(store, d).totalRequests
                                  /\ trends[k].totalCost = SummaryOfDay(store, d).totalCost
                                  /\ trends[k].averageCost =
                                         SummaryOfDay(store, d).averageCostPerRequest
                  /\ failed = {} =>
                        SumRequests(trends) =
                            Cardinality({i \in DOMAIN store :
                                            /\ DayOf(store[i].timestamp) <= DayOf(now)
                                            /\ DayOf(store[i].timestamp) > DayOf(now) - days})]_vars

\* the trends of two days that both have events
C22_Witness ==
    /\ outcome.call = "getCostTrends"
    /\ outcome.logged = "none"
    /\ Len(outcome.value) = 2
    /\ outcome.value[1].requestCount > 0
    /\ outcome.value[2].requestCount > 0
    /\ outcome.value[1].date + 1 = outcome.value[2].date

---------------------------------------------------------------------------
(* C23: for a non-empty window, getCostSummary's costSavings equals        *)
(* R x T - A, where A is the window's total cost, T is the sum of          *)
(* totalTokens over all events in the window, and R is the largest         *)
(* cost-per-token observed among the events of the model with the highest  *)
(* aggregate cost in the window.                                           *)
EventsIn(st, window) ==
    {i \in DOMAIN st : st[i].timestamp >= window.startDate
                          /\ st[i].timestamp <= window.endDate}

\* the cost and the tokens of a set of events, an event's cost being the
\* cost getCostSummary counts for it
RECURSIVE CostOfEvents(_, _)
CostOfEvents(st, ids) ==
    IF ids = {} THEN 0
    ELSE LET i == CHOOSE j \in ids : TRUE
         IN  costOf(st[i]) + CostOfEvents(st, ids \ {i})

RECURSIVE TokensOfEvents(_, _)
TokensOfEvents(st, ids) ==
    IF ids = {} THEN 0
    ELSE LET i == CHOOSE j \in ids : TRUE
         IN  st[i].totalTokens + TokensOfEvents(st, ids \ {i})

EventsOfModel(st, ids, m) == {i \in ids : st[i].modelName = m}

\* the models of highest aggregate cost among the events ids
TopModelsOf(st, ids) ==
    {m \in {st[i].modelName : i \in ids} :
        \A i \in ids :
            CostOfEvents(st, EventsOfModel(st, ids, st[i].modelName))
                <= CostOfEvents(st, EventsOfModel(st, ids, m))}

\* the largest cost per token among the events ids
LargestRate(st, ids) ==
    LET rates == {Div(Num(costOf(st[i])), Num(st[i].totalTokens)) : i \in ids}
    IN  CHOOSE r \in rates : \A q \in rates : ~Greater(q, r)

SavingsByTopRate(st, ids, m) ==
    Sub(Mul(LargestRate(st, EventsOfModel(st, ids, m)), Num(TokensOfEvents(st, ids))),
        Num(CostOfEvents(st, ids)))

C23_SavingsAreTopRateTimesTokensLessCost ==
    [][\A window \in Windows :
          GetCostSummary(window, TRUE) /\ EventsIn(store, window) # {} =>
              \E m \in TopModelsOf(store, EventsIn(store, window)) :
                  outcome'.value.costSavings =
                      SavingsByTopRate(store, EventsIn(store, window), m)]_vars

\* the same, for windows none of whose events has had an actual cost other
\* than 0 recorded
SavingsOfUnbilledWindows ==
    [][\A window \in Windows :
          /\ GetCostSummary(window, TRUE)
          /\ EventsIn(store, window) # {}
          /\ \A i \in EventsIn(store, window) : costOf(store[i]) = store[i].estimatedCost
          => \E m \in TopModelsOf(store, EventsIn(store, window)) :
                  outcome'.value.costSavings =
                      SavingsByTopRate(store, EventsIn(store, window), m)]_vars

---------------------------------------------------------------------------
(* The pipeline: processWithGemini selects a model, calls it, and records  *)
(* the usage                                                               *)

\* invocations of processWithGemini in one behaviour
MaxInvocations == 1

\* criteria as processWithGemini builds them: contextLength is the number
\* of messages of the conversation, determineCustomerTier answers standard
\* or enterprise
PipelineCriteria ==
    {c \in ModelSelectionCriteria :
        /\ c.contextLength = ContextSamples[1]
        /\ c.customerTier \in {"standard", "enterprise"}
        /\ c.urgency \in {"low", "high"}
        /\ c.channel \in {"sms", "voice"}}

\* estimatedInputTokens + estimatedOutputTokens of a short and of a long
\* message
PipelineTokens == {TokenSamples[2], TokenSamples[6]}

\* the record of the success path; the session id stands for its channel
\* prefix, and the response is as long as estimated
usageOfSuccess ==
    [sessionId |-> criteria.channel,
     modelName |-> objects[result.config].name,
     totalTokens |-> estimatedTokens,
     estimatedCost |-> result.estimatedCost,
     channel |-> criteria.channel,
     complexity |-> criteria.complexity,
     success |-> TRUE]

\* the record of the catch block
usageOfFailure ==
    [sessionId |-> criteria.channel,
     modelName |-> "gemini-2.5-flash",
     totalTokens |-> estimatedTokens,
     estimatedCost |-> 0,
     channel |-> criteria.channel,
     complexity |-> criteria.complexity,
     success |-> FALSE,
     errorMessage |-> "Unknown error"]

InitPipeline ==
    /\ InitService
    /\ criteria \in PipelineCriteria
    /\ estimatedTokens \in PipelineTokens

\* processWithGemini is invoked: it builds the criteria of the message
ProcessWithGemini(c, tokens) ==
    /\ pipeline.pc \in {"idle", "returned"}
    /\ pipeline.invocation < MaxInvocations
    /\ criteria' = c
    /\ estimatedTokens' = tokens
    /\ result' = NoResult
    /\ pipeline' = [pc |-> "selecting", recorded |-> 0,
                    invocation |-> pipeline.invocation + 1]
    /\ UNCHANGED <<objects, arrays, held, mutations>>
    /\ UNCHANGED ledgerVars

\* this.modelSelectionService.selectModel(criteria, estimated tokens)
PipelineSelects ==
    /\ pipeline.pc = "selecting"
    /\ result' = selectModel(criteria, estimatedTokens)
    /\ pipeline' = [pipeline EXCEPT !.pc = "calling"]
    /\ UNCHANGED <<objects, arrays, criteria, estimatedTokens, held, mutations>>
    /\ UNCHANGED ledgerVars

\* a success path that returns the response without recording its usage
ModelCallReturns_Unrecorded(k) ==
    /\ pipeline.pc = "calling"
    /\ pipeline' = [pipeline EXCEPT !.pc = "returned"]
    /\ UNCHANGED selectorVars
    /\ UNCHANGED ledgerVars

\* chat.sendMessage(message) returns: the usage is recorded, success: true
ModelCallReturns(k) ==
    /\ pipeline.pc = "calling"
    /\ recordUsageAwaits(usageOfSuccess, k)
    /\ pipeline' = [pipeline EXCEPT !.pc = "recording", !.recorded = @ + 1]
    /\ UNCHANGED selectorVars

\* creating the model, sending the message or reading the response throws
ModelCallThrows ==
    /\ pipeline.pc = "calling"
    /\ pipeline' = [pipeline EXCEPT !.pc = "caught"]
    /\ UNCHANGED selectorVars
    /\ UNCHANGED ledgerVars

\* the awaited recordUsage of the success path ends: the response is
\* returned, unless recordUsage rejected, which the catch block would catch
SuccessRecorded(request, writeOk) ==
    /\ pipeline.pc = "recording"
    /\ recordUsageResumes(request, writeOk)
    /\ pipeline' = [pipeline EXCEPT !.pc = IF outcome'.settled = "resolved"
                                          THEN "returned" ELSE "caught"]
    /\ UNCHANGED selectorVars

\* the catch block records the failed usage
CatchRecordsFailure(k) ==
    /\ pipeline.pc = "caught"
    /\ recordUsageAwaits(usageOfFailure, k)
    /\ pipeline' = [pipeline EXCEPT !.pc = "recordingFailure", !.recorded = @ + 1]
    /\ UNCHANGED selectorVars

\* the awaited recordUsage of the catch block ends, and the apology is
\* returned
FailureRecorded(request, writeOk) ==
    /\ pipeline.pc = "recordingFailure"
    /\ recordUsageResumes(request, writeOk)
    /\ pipeline' = [pipeline EXCEPT !.pc = "returned"]
    /\ UNCHANGED selectorVars

NextPipeline ==
    \/ \E c \in PipelineCriteria : \E tokens \in PipelineTokens : ProcessWithGemini(c, tokens)
    \/ PipelineSelects
    \/ \E k \in DOMAIN RandomSuffixes : ModelCallReturns(k)
    \/ ModelCallThrows
    \/ \E request \in inflight : \E writeOk \in BOOLEAN : SuccessRecorded(request, writeOk)
    \/ \E k \in DOMAIN RandomSuffixes : CatchRecordsFailure(k)
    \/ \E request \in inflight : \E writeOk \in BOOLEAN : FailureRecorded(request, writeOk)
    \/ Tick

SpecPipeline == InitPipeline /\ [][NextPipeline]_vars

---------------------------------------------------------------------------
(* C24: every usage event the pipeline records carries as modelName the    *)
(* name of a catalog model, namely the model that selectModel returned for *)
(* that invocation; this holds for failed invocations (success = false) as *)
(* well as for successful ones.                                            *)
CatalogNames == {DefaultModels[i].name : i \in DOMAIN DefaultModels}

C24_RecordedModelIsTheSelectedCatalogModel ==
    /\ \A request \in inflight :
          /\ request.data.modelName \in CatalogNames
          /\ request.data.modelName = objects[result.config].name
    /\ \A i \in DOMAIN store : store[i].modelName \in CatalogNames

\* the same, for the events of successful invocations
RecordedModelOfSuccessIsTheSelectedCatalogModel ==
    /\ \A request \in inflight :
          request.data.success =>
              /\ request.data.modelName \in CatalogNames
              /\ request.data.modelName = objects[result.config].name
    /\ \A i \in DOMAIN store : store[i].success => store[i].modelName \in CatalogNames

---------------------------------------------------------------------------
(* C25: each processWithGemini invocation calls recordUsage exactly once,  *)
(* and only after the model selection and model call attempt: once with    *)
(* success = true when the model call returns, or once with success =      *)
(* false and an errorMessage when selection or the model call throws; it   *)
(* never records zero events or two events for one invocation.             *)
C25_OneRecordUsageCallPerInvocation ==
    /\ pipeline.recorded <= 1
    /\ calls = IF pipeline.pc = "idle" THEN 0
               ELSE pipeline.invocation - 1 + pipeline.recorded
    /\ pipeline.pc \in {"idle", "selecting", "calling", "caught"} =>
          pipeline.recorded = 0 /\ inflight = {}
    /\ pipeline.pc = "returned" => pipeline.recorded = 1 /\ inflight = {}
    /\ pipeline.pc \in {"recording", "recordingFailure"} =>
          /\ Cardinality(inflight) = 1
          /\ result # NoResult
          /\ \A request \in inflight :
                /\ request.call = "recordUsage"
                /\ request.serial = calls
                /\ request.data.success <=> pipeline.pc = "recording"
                /\ ~request.data.success => "errorMessage" \in Fields(request.data)

\* an invocation whose model call threw has returned, its one event stored
C25_Witness ==
    /\ pipeline.pc = "returned"
    /\ pipeline.recorded = 1
    /\ calls = 1
    /\ \E i \in DOMAIN store : ~store[i].success

---------------------------------------------------------------------------
(* C26, as claimed: calculateEffectivenessScore adds the +0.1 context      *)
(* bonus whenever the model's contextWindow is at least twice              *)
(* criteria.contextLength (contextWindow >= 2 x contextLength, exact       *)
(* equality included).                                                     *)
\* the score of the model for the same criteria with a context as long as
\* its window, for which no reading of the rule grants the bonus
ScoreWithoutContextBonus(model) ==
    calculateEffectivenessScore(model, [criteria EXCEPT !.contextLength = model.contextWindow])

\* the score is the score without the bonus, plus 0.1 if granted, capped
ScoreWithContextBonusIf(model, granted) ==
    calculateEffectivenessScore(model, criteria) =
        IF ScoreWithoutContextBonus(model) + (IF granted THEN 1 ELSE 0) > 10 THEN 10
        ELSE ScoreWithoutContextBonus(model) + (IF granted THEN 1 ELSE 0)

C26_ContextBonusFromTwiceTheLength ==
    \A r \in CatalogRefs :
        ScoreWithContextBonusIf(objects[r],
                                objects[r].contextWindow >= 2 * criteria.contextLength)

(* C26, amended: calculateEffectivenessScore adds the +0.1 context bonus   *)
(* exactly when the model's contextWindow is more than twice               *)
(* criteria.contextLength (contextWindow > 2 x contextLength); a window of *)
(* exactly twice the length earns no bonus.                                *)
C26_ContextBonusAboveTwiceTheLength ==
    \A r \in CatalogRefs :
        ScoreWithContextBonusIf(objects[r],
                                objects[r].contextWindow > 2 * criteria.contextLength)

\* selectModel has scored, for a context of exactly half its window, a
\* model whose score is below the cap
C26_Witness ==
    /\ Done
    /\ \E r \in CatalogRefs :
          /\ objects[r].contextWindow = 2 * criteria.contextLength
          /\ r \in {x \in CatalogRefs : objects[x].contextWindow >= criteria.contextLength}
          /\ calculateEffectivenessScore(objects[r], criteria) < 10

---------------------------------------------------------------------------
(* A service asked for recommendations thirty days after the first events  *)

\* one event of cost 1 on each of the four channels
ChannelEvents ==
    {costRecordOf([CheapUsage EXCEPT !.channel = "sms"], 0, 3),
     costRecordOf([CheapUsage EXCEPT !.channel = "voice"], 0, 4),
     costRecordOf([CheapUsage EXCEPT !.channel = "email"], 1, 3),
     costRecordOf([CheapUsage EXCEPT !.channel = "chat"], 1, 4)}

MonthStores ==
    PersistedStores \cup {collectionOf(docs) : docs \in SUBSET ChannelEvents}

\* thirty days after time 0, and one tick later
MonthTimes == {30 * DayLength, 30 * DayLength + 1}

InitMonth ==
    /\ IdleSelector
    /\ \E st \in MonthStores : \E t \in MonthTimes : writtenBy(st, t) /\ StartedOver(st, t)

NextMonth == \E readOk \in BOOLEAN : GetOptimizationRecommendations(readOk)

SpecMonth == InitMonth /\ [][NextMonth]_vars

---------------------------------------------------------------------------
(* C27: getOptimizationRecommendations, over the trailing 30 days, emits a *)
(* model_switch recommendation exactly when 30% of the spend of the model  *)
(* with the highest aggregate cost exceeds 1.0 (potentialSavings = 0.3 x   *)
(* that spend), emits a channel_optimization recommendation exactly when   *)
(* at least one channel's spend exceeds 20% of total spend                 *)
(* (potentialSavings = 0.2 x the summed spend of those channels), and      *)
(* emits no recommendation when the ledger is empty or unavailable.        *)
TrailingEvents(st, t) ==
    {i \in DOMAIN st : st[i].timestamp >= t - 30 * DayLength /\ st[i].timestamp <= t}

EventsOfChannel(st, ids, ch) == {i \in ids : st[i].channel = ch}

\* the highest aggregate cost of a model among the events ids
TopSpend(st, ids) ==
    LET spends == {CostOfEvents(st, EventsOfModel(st, ids, st[i].modelName)) : i \in ids}
    IN  IF ids = {} THEN 0 ELSE CHOOSE x \in spends : \A y \in spends : y <= x

\* the channels that carry more than 20% of the cost of the events ids
ChannelsAboveFifth(st, ids) ==
    {ch \in {st[i].channel : i \in ids} :
        5 * CostOfEvents(st, EventsOfChannel(st, ids, ch)) > CostOfEvents(st, ids)}

OfType(recommendations, type) ==
    {i \in DOMAIN recommendations : recommendations[i].type = type}

C27_RecommendationsFollowTheThresholds ==
    [][\A readOk \in BOOLEAN :
          GetOptimizationRecommendations(readOk) =>
              LET recs == outcome'.value
                  ids == IF readOk THEN TrailingEvents(store, now) ELSE {}
                  high == ChannelsAboveFifth(store, ids)
              IN  /\ \A i \in DOMAIN recs :
                        recs[i].type \in {"model_switch", "channel_optimization"}
                  /\ Cardinality(OfType(recs, "model_switch")) =
                         IF 3 * TopSpend(store, ids) > 10 THEN 1 ELSE 0
                  /\ \A i \in OfType(recs, "model_switch") :
                        recs[i].potentialSavings =
                            Div(Num(3 * TopSpend(store, ids)), Num(10))
                  /\ Cardinality(OfType(recs, "channel_optimization")) =
                         IF high # {} THEN 1 ELSE 0
                  /\ \A i \in OfType(recs, "channel_optimization") :
                        /\ {recs[i].subject[j] : j \in DOMAIN recs[i].subject} = high
                        /\ recs[i].potentialSavings =
                               Div(Num(CostOfEvents(store,
                                       UNION {EventsOfChannel(store, ids, ch) : ch \in high})),
                                   Num(5))
                  /\ ids = {} => recs = <<>>]_vars

\* recommendations of both kinds over a ledger whose costly event is
\* exactly thirty days old
C27_Witness ==
    /\ outcome.call = "getOptimizationRecommendations"
    /\ outcome.logged = "none"
    /\ \E i \in DOMAIN store :
          store[i].timestamp = now - 30 * DayLength /\ store[i].estimatedCost > 3
    /\ OfType(outcome.value, "model_switch") # {}
    /\ OfType(outcome.value, "channel_optimization") # {}

---------------------------------------------------------------------------
(* C30: whenever the trailing-30-day total cost is positive and events use *)
(* only the four channels sms, voice, email and chat,                      *)
(* getOptimizationRecommendations always includes a channel_optimization   *)
(* recommendation, because some channel necessarily carries more than 20%  *)
(* of the total spend.                                                     *)
C30_PositiveSpendGivesChannelRecommendation ==
    [][/\ GetOptimizationRecommendations(TRUE)
       /\ CostOfEvents(store, TrailingEvents(store, now)) > 0
       /\ \A i \in TrailingEvents(store, now) : store[i].channel \in Channels
       => OfType(outcome'.value, "channel_optimization") # {}]_vars

\* recommendations over four events of equal cost, one on each channel:
\* each channel carries 25% of the spend
C30_Witness ==
    /\ outcome.call = "getOptimizationRecommendations"
    /\ outcome.logged = "none"
    /\ {store[i].channel : i \in TrailingEvents(store, now)} = Channels
    /\ \E i \in OfType(outcome.value, "channel_optimization") :
          Len(outcome.value[i].subject) = 4

---------------------------------------------------------------------------
(* C28: for every well-formed criteria and every estimatedTokens > 0,      *)
(* selectModel never returns Claude Opus 4.1, Claude 3 Opus, GPT-4o or     *)
(* Grok-2: GPT-4o and Grok-2 carry none of the tags a complexity filter    *)
(* accepts and are not the cheapest model, and whenever an Opus model is a *)
(* candidate Gemini 1.5 Pro is also a candidate with effectiveness at      *)
(* least as high and strictly lower cost.                                  *)
NeverSelected == {"Claude Opus 4.1", "Claude 3 Opus", "GPT-4o", "Grok-2"}
OpusModels == {"Claude Opus 4.1", "Claude 3 Opus"}

\* the tags the three branches of the complexity filter look for
ComplexityTags ==
    {"good_for_simple", "fast", "good_for_moderate", "balanced",
     "complex_reasoning", "large_context"}

RefOf(name) == CHOOSE r \in CatalogRefs : objects[r].name = name

---------------------------------------------------------------------------
(* C29: for every non-empty window getCostSummary returns well-defined     *)
(* finite numbers for costSavings and costSavingsPercentage, with no       *)
(* division by zero, including windows in which every event has cost 0     *)
(* (only failed invocations, recorded with estimatedCost 0).               *)
C29_SavingsAreFiniteNumbers ==
    [][\A window \in Windows :
          /\ GetCostSummary(window, TRUE)
          /\ EventsIn(store, window) # {}
          => /\ IsFinite(outcome'.value.costSavings)
             /\ IsFinite(outcome'.value.costSavingsPercentage)]_vars

\* what the code does give: the savings are a finite number, and the
\* percentage is one exactly when the window's cost and its savings do not
\* add up to 0
SavingsPercentageFiniteUnlessZeroBase ==
    [][\A window \in Windows :
          /\ GetCostSummary(window, TRUE)
          /\ EventsIn(store, window) # {}
          => /\ IsFinite(outcome'.value.costSavings)
             /\ IsFinite(outcome'.value.costSavingsPercentage)
                   <=> Add(Num(CostOfEvents(store, EventsIn(store, window))),
                           outcome'.value.costSavings) # Num(0)]_vars

\* a summary over a window holding only a failed invocation
OnlyFailuresSummarised ==
    /\ outcome.call = "getCostSummary"
    /\ outcome.logged = "none"
    /\ outcome.value.totalRequests = 1
    /\ outcome.value.totalCost = 0
    /\ IsNaN(outcome.value.costSavingsPercentage)

=============================================================================
